---- MODULE Spec2Model ----
(***************************************************************************)
(* MinVault: an HTTP gateway that stores uploaded files in a MinIO bucket. *)
(* Strings the program inspects (file names, media types, object keys,     *)
(* URL paths) are sequences of one-character strings, so that slicing,     *)
(* prefix tests and concatenation are computed as the code computes them.  *)
(***************************************************************************)
EXTENDS Integers, Sequences, FiniteSets, TLC

VARIABLES
    store,      \* the bucket: object key -> stored object
    clock,      \* Date.now()
    req,        \* the request being served: its handler's position, its
                \* backend calls and its response
    uploads,    \* how many upload requests have been received
    probeIn,    \* input of a pure function under check
    probeOut,   \* its output
    server,     \* the process: startServer's position and the exit code
    bucket      \* whether the backend holds the configured bucket

vars == <<store, clock, req, uploads, probeIn, probeOut, server, bucket>>

-----------------------------------------------------------------------------
(* Bounds *)

MaxNameLen == 3      \* longest original file name drawn for the naming policy
MaxTypeLen == 4      \* longest media type drawn for the file filter
MaxClock == 2        \* the last millisecond of the clock
MaxUploads == 1      \* upload requests received in one behaviour

-----------------------------------------------------------------------------
(* String helpers: JavaScript String methods on sequences of characters *)

\* s.startsWith(p)
StartsWith(s, p) ==
    /\ Len(p) <= Len(s)
    /\ SubSeq(s, 1, Len(p)) = p

\* s.endsWith(p)
EndsWith(s, p) ==
    /\ Len(p) <= Len(s)
    /\ SubSeq(s, Len(s) - Len(p) + 1, Len(s)) = p

\* s.slice(0, -n)
DropLast(s, n) == SubSeq(s, 1, Len(s) - n)

\* the positions of character c in s
Positions(s, c) == {i \in 1..Len(s) : s[i] = c}

\* the largest element of a non-empty set of integers
Maximum(S) == CHOOSE x \in S : \A y \in S : y <= x

\* the smallest element of a non-empty set of integers
Minimum(S) == CHOOSE x \in S : \A y \in S : x <= y

\* the sequences over S of length lo..hi
SeqsOf(S, lo, hi) == UNION {[1..n -> S] : n \in lo..hi}

\* String(n) for a non-negative integer: its decimal digits
RECURSIVE Digits(_)
Digits(n) ==
    LET d == <<"0", "1", "2", "3", "4", "5", "6", "7", "8", "9">>[(n % 10) + 1]
    IN  IF n < 10 THEN <<d>> ELSE Digits(n \div 10) \o <<d>>

\* s.split(sep)[0]: the part of s before the first sep (all of s without one)
SplitFirst(s, sep) ==
    IF Positions(s, sep) = {} THEN s
    ELSE SubSeq(s, 1, Minimum(Positions(s, sep)) - 1)

\* s.split(sep): the pieces of s between the separators
RECURSIVE Split(_, _)
Split(s, sep) ==
    IF Positions(s, sep) = {} THEN <<s>>
    ELSE LET p == Minimum(Positions(s, sep))
         IN  <<SubSeq(s, 1, p - 1)>> \o Split(SubSeq(s, p + 1, Len(s)), sep)

-----------------------------------------------------------------------------
(* Naming policy: MinioService.generateUniqueFilename and the object name  *)
(* uploadFile builds from it.  multer hands originalname over as a base    *)
(* name, so the names drawn hold no '/'.                                   *)

NameChars == {"a", "b", "."}

HexChars == {"0", "1", "2", "3", "4", "5", "6", "7", "8", "9",
             "a", "b", "c", "d", "e", "f"}

\* path.extname(name) for a name without '/': the part from the last '.',
\* empty without a '.', when the last '.' is the first character, or for '..'
ExtName(name) ==
    IF Positions(name, ".") = {} THEN <<>>
    ELSE LET d == Maximum(Positions(name, "."))
         IN  IF d = 1 \/ name = <<".", ".">> THEN <<>>
             ELSE SubSeq(name, d, Len(name))

\* path.basename(name, ext) for a name without '/': the name without the
\* suffix ext; the name itself when ext is empty or no suffix of it
BaseName(name, ext) ==
    IF Len(ext) > 0 /\ Len(ext) <= Len(name) /\ EndsWith(name, ext)
    THEN DropLast(name, Len(ext))
    ELSE name

\* the outcomes of uuidv4() the model draws from: 8-4-4-4-12 hexadecimal
\* characters, version 4, variant 8, the other characters all c
UuidOf(c) ==
    <<c, c, c, c, c, c, c, c, "-", c, c, c, c, "-", "4", c, c, c, "-",
      "8", c, c, c, "-", c, c, c, c, c, c, c, c, c, c, c, c>>

Uuids == {UuidOf("0"), UuidOf("a")}

\* generateUniqueFilename had it dropped the extension
GenerateUniqueFilenameNoExt(originalName, now, uuidv4) ==
    LET ext == ExtName(originalName)
        baseName == BaseName(originalName, ext)
    IN  baseName \o <<"_">> \o Digits(now) \o <<"_">> \o SplitFirst(uuidv4, "-")

\* generateUniqueFilename; now is Date.now() and uuidv4 the uuid it draws
GenerateUniqueFilename(originalName, now, uuidv4) ==
    LET ext == ExtName(originalName)
        baseName == BaseName(originalName, ext)
        timestamp == now
        uuid == SplitFirst(uuidv4, "-")
    IN  baseName \o <<"_">> \o Digits(timestamp) \o <<"_">> \o uuid \o ext

\* uploadFile's objectName
ObjectName(originalName, customPath, now, uuidv4) ==
    LET uniqueFilename == GenerateUniqueFilename(originalName, now, uuidv4)
    IN  IF customPath # <<>> THEN customPath \o <<"/">> \o uniqueFilename
        ELSE uniqueFilename

-----------------------------------------------------------------------------
(* Type policy: the multer fileFilter *)

\* fileFilter's isAllowed: allowedTypes.some(...)
FileFilter(allowedTypes, mimetype) ==
    \E i \in 1..Len(allowedTypes) :
        LET type == allowedTypes[i]
        IN  IF EndsWith(type, <<"/", "*">>)
            THEN LET baseType == DropLast(type, 2)
                 IN  StartsWith(mimetype, baseType)
            ELSE mimetype = type

-----------------------------------------------------------------------------
(* Size policy: parseSize of the upload middleware.  A size is the exact   *)
(* fraction num / den of bytes.                                            *)

DigitChars == <<"0", "1", "2", "3", "4", "5", "6", "7", "8", "9">>

\* the characters \d matches
DigitSet == {DigitChars[i] : i \in 1..10}

DigitVal(c) == (CHOOSE i \in 1..10 : DigitChars[i] = c) - 1

\* the value of a run of decimal digits
RECURSIVE DecVal(_)
DecVal(s) ==
    IF s = <<>> THEN 0
    ELSE 10 * DecVal(SubSeq(s, 1, Len(s) - 1)) + DigitVal(s[Len(s)])

RECURSIVE Pow(_, _)
Pow(b, e) == IF e = 0 THEN 1 ELSE b * Pow(b, e - 1)

\* the length of the longest run of characters of S in s from position i on
RunLen(s, i, S) ==
    LET stops == {j \in i..Len(s) : s[j] \notin S}
    IN  IF stops = {} THEN Len(s) - i + 1 ELSE Minimum(stops) - i

\* the characters \s matches, of those drawn
SpaceSet == {" ", "\t"}

\* String.toUpperCase on the letters of a unit
ToUpper(c) ==
    IF c = "b" THEN "B" ELSE IF c = "k" THEN "K" ELSE IF c = "m" THEN "M"
    ELSE IF c = "g" THEN "G" ELSE c

\* the units table of parseSize; 0 for a string that is no unit
UnitBytes(u) ==
    LET up == [i \in 1..Len(u) |-> ToUpper(u[i])]
    IN  IF up = <<"B">> THEN 1
        ELSE IF up = <<"K", "B">> THEN 1024
        ELSE IF up = <<"M", "B">> THEN 1024 * 1024
        ELSE IF up = <<"G", "B">> THEN 1024 * 1024 * 1024
        ELSE 0

\* parseSize(sizeStr): /^(\d+(?:\.\d+)?)\s*(B|KB|MB|GB)$/i, times the unit,
\* and 10 MB for a string that does not match
ParseSize(sizeStr) ==
    LET n1 == RunLen(sizeStr, 1, DigitSet)
        hasDot == n1 + 1 <= Len(sizeStr) /\ sizeStr[n1 + 1] = "."
        n2 == IF hasDot THEN RunLen(sizeStr, n1 + 2, DigitSet) ELSE 0
        numEnd == IF n2 > 0 THEN n1 + 1 + n2 ELSE n1
        sp == RunLen(sizeStr, numEnd + 1, SpaceSet)
        unit == SubSeq(sizeStr, numEnd + sp + 1, Len(sizeStr))
        whole == DecVal(SubSeq(sizeStr, 1, n1))
        frac == DecVal(SubSeq(sizeStr, n1 + 2, n1 + 1 + n2))
    IN  IF n1 = 0 \/ UnitBytes(unit) = 0
        THEN [num |-> 10 * 1024 * 1024, den |-> 1]
        ELSE [num |-> (whole * Pow(10, n2) + frac) * UnitBytes(unit),
              den |-> Pow(10, n2)]

\* ExceedsSize had busboy cut a file off on reaching the limit
ExceedsSizeAtLimit(size, limit) == size * limit.den >= limit.num

\* busboy's test of a file of `size` bytes against limits.fileSize
ExceedsSize(size, limit) == size * limit.den > limit.num

-----------------------------------------------------------------------------
(* Configuration (config.js) of the modelled deployment *)

\* config.upload.allowedFileTypes: ['video/*', 'image/*', 'application/pdf']
AllowedFileTypes ==
    << <<"v", "i", "d", "e", "o", "/", "*">>,
       <<"i", "m", "a", "g", "e", "/", "*">>,
       <<"a", "p", "p", "l", "i", "c", "a", "t", "i", "o", "n", "/", "p", "d", "f">> >>

\* config.upload.maxFileSize, with MAX_FILE_SIZE=3B in the environment
MaxFileSize == <<"3", "B">>

\* multer's limits.fileSize
FileSizeLimit == ParseSize(MaxFileSize)

\* multer's limits.files
LimitFiles == 10

\* upload.single('file'): at most one file, in field 'file'
SingleMaxCount == 1

\* upload.array('files', 10)
ArrayMaxCount == 10

\* listFiles' default maxKeys
DefaultMaxKeys == 1000

\* config.presignedUrl.expiry
DefaultExpiry == 3600

-----------------------------------------------------------------------------
(* Errors and responses *)

\* a JavaScript Error: message is a sequence of fragments, statusCode 0 and
\* code "" stand for undefined
Err(name, message, code) ==
    [name |-> name, message |-> message, statusCode |-> 0, code |-> code]

\* err.message.includes(fragment)
Includes(message, fragment) == \E i \in 1..Len(message) : message[i] = fragment

\* messages the storage client rejects a call with
MsgConnRefused == <<"connect ", "ECONNREFUSED", " 127.0.0.1:9000">>
MsgNotFound == <<"Not Found">>
MsgNoSuchBucket == <<"NoSuchBucket", ": The specified bucket does not exist">>
MsgAccessDenied == <<"AccessDenied", ": Access Denied.">>

BackendFaults == {MsgConnRefused}

\* the ways a call on the bucket's objects settles (<<>>: it succeeds): the
\* backend rejects the call when it does not have the bucket
BucketOutcomes ==
    IF bucket THEN {<<>>} \cup BackendFaults
    ELSE {MsgNoSuchBucket} \cup BackendFaults

NoData == [keys |-> <<>>, grants |-> <<>>, size |-> -1, listed |-> {}, count |-> -1,
           status |-> "", minio |-> ""]

\* no response; fields is the set of the top-level properties of a body
NoResp == [status |-> 0, success |-> FALSE, code |-> "", error |-> <<>>,
           data |-> NoData, fields |-> {}]

\* res.status(status).json({success: false, error, code, ...}) with the
\* further top-level properties `more`
ErrorBody(status, error, code, more) ==
    [status |-> status, success |-> FALSE, code |-> code, error |-> error,
     data |-> NoData, fields |-> {"success", "error", "code"} \cup more]

\* res.status(status).json({success: true, message, data})
SuccessBody(status, data) ==
    [status |-> status, success |-> TRUE, code |-> "", error |-> <<>>,
     data |-> data, fields |-> {"success", "message", "data"}]

\* config.server.nodeEnv, NODE_ENV not set
NodeEnv == "development"

\* the properties errorHandler adds to its body
HandlerFields ==
    {"timestamp", "path", "method"}
        \cup (IF NodeEnv = "development" THEN {"stack"} ELSE {})

\* ErrorHandler had it tested for NoSuchBucket before ECONNREFUSED
ErrorHandlerBucketFirst(err) ==
    LET statusCode == IF err.statusCode # 0 THEN err.statusCode ELSE 500
        message == IF err.message # <<>> THEN err.message
                   ELSE <<"Internal Server Error">>
        code == IF err.code # "" THEN err.code ELSE "INTERNAL_ERROR"
    IN  IF err.name = "ValidationError"
        THEN ErrorBody(400, message, "VALIDATION_ERROR", HandlerFields)
        ELSE IF err.name = "UnauthorizedError"
        THEN ErrorBody(401, message, "UNAUTHORIZED", HandlerFields)
        ELSE IF Includes(err.message, "NoSuchBucket")
        THEN ErrorBody(500, <<"Storage bucket not found">>, "BUCKET_NOT_FOUND", HandlerFields)
        ELSE IF Includes(err.message, "ECONNREFUSED")
        THEN ErrorBody(503, <<"Storage service unavailable">>,
                       "SERVICE_UNAVAILABLE", HandlerFields)
        ELSE IF Includes(err.message, "AccessDenied")
        THEN ErrorBody(403, <<"Storage access denied">>, "ACCESS_DENIED", HandlerFields)
        ELSE ErrorBody(statusCode, message, code, HandlerFields)

\* errorHandler: the response it sends for err
ErrorHandler(err) ==
    LET statusCode == IF err.statusCode # 0 THEN err.statusCode ELSE 500
        message == IF err.message # <<>> THEN err.message
                   ELSE <<"Internal Server Error">>
        code == IF err.code # "" THEN err.code ELSE "INTERNAL_ERROR"
    IN  IF err.name = "ValidationError"
        THEN ErrorBody(400, message, "VALIDATION_ERROR", HandlerFields)
        ELSE IF err.name = "UnauthorizedError"
        THEN ErrorBody(401, message, "UNAUTHORIZED", HandlerFields)
        ELSE IF Includes(err.message, "ECONNREFUSED")
        THEN ErrorBody(503, <<"Storage service unavailable">>,
                       "SERVICE_UNAVAILABLE", HandlerFields)
        ELSE IF Includes(err.message, "NoSuchBucket")
        THEN ErrorBody(500, <<"Storage bucket not found">>, "BUCKET_NOT_FOUND", HandlerFields)
        ELSE IF Includes(err.message, "AccessDenied")
        THEN ErrorBody(403, <<"Storage access denied">>, "ACCESS_DENIED", HandlerFields)
        ELSE ErrorBody(statusCode, message, code, HandlerFields)

\* notFoundHandler
NotFoundHandler ==
    ErrorBody(404, <<"Route not found">>, "NOT_FOUND", {"message", "timestamp"})

\* handleMulterError: the 400 it sends, or the error handler's response for
\* an error it passes on with next(error)
HandleMulterError(error) ==
    IF error.name = "MulterError"
    THEN IF error.code = "LIMIT_FILE_SIZE"
         THEN ErrorBody(400, <<"File too large">>, "FILE_TOO_LARGE", {"message"})
         ELSE IF error.code = "LIMIT_FILE_COUNT"
         THEN ErrorBody(400, <<"Too many files">>, "TOO_MANY_FILES", {"message"})
         ELSE IF error.code = "LIMIT_UNEXPECTED_FILE"
         THEN ErrorBody(400, <<"Unexpected field">>, "UNEXPECTED_FIELD", {"message"})
         ELSE ErrorBody(400, <<"Upload error">>, "UPLOAD_ERROR", {"message"})
    ELSE IF Includes(error.message, "File type")
    THEN ErrorBody(400, <<"Invalid file type">>, "INVALID_FILE_TYPE", {"message"})
    ELSE ErrorHandler(error)

-----------------------------------------------------------------------------
(* Multipart decode: multer with memoryStorage, the fileFilter and limits *)

NoErr == Err("", <<>>, "")

\* PartError had limits.fileSize not been set
PartErrorNoSize(parts, i, fieldname, field, maxCount) ==
    IF i > LimitFiles
    THEN Err("MulterError", <<"Too many files">>, "LIMIT_FILE_COUNT")
    ELSE IF fieldname # field \/ i > maxCount
    THEN Err("MulterError", <<"Unexpected field">>, "LIMIT_UNEXPECTED_FILE")
    ELSE IF ~FileFilter(AllowedFileTypes, parts[i].mimetype)
    THEN Err("Error", <<"File type", " ", "is not allowed. Allowed types: ">>, "")
    ELSE Err("", <<>>, "")

\* PartError had limits.files not been set
PartErrorNoLimit(parts, i, fieldname, field, maxCount) ==
    IF fieldname # field \/ i > maxCount
    THEN Err("MulterError", <<"Unexpected field">>, "LIMIT_UNEXPECTED_FILE")
    ELSE IF ~FileFilter(AllowedFileTypes, parts[i].mimetype)
    THEN Err("Error", <<"File type", " ", "is not allowed. Allowed types: ">>, "")
    ELSE IF ExceedsSize(Len(parts[i].buffer), FileSizeLimit)
    THEN Err("MulterError", <<"File too large">>, "LIMIT_FILE_SIZE")
    ELSE Err("", <<>>, "")

\* what stops the decode at file part i of a request whose parts all arrive
\* in field fieldname, for a route that takes maxCount files in field `field`
PartError(parts, i, fieldname, field, maxCount) ==
    IF i > LimitFiles
    THEN Err("MulterError", <<"Too many files">>, "LIMIT_FILE_COUNT")
    ELSE IF fieldname # field \/ i > maxCount
    THEN Err("MulterError", <<"Unexpected field">>, "LIMIT_UNEXPECTED_FILE")
    ELSE IF ~FileFilter(AllowedFileTypes, parts[i].mimetype)
    THEN Err("Error", <<"File type", " ", "is not allowed. Allowed types: ">>, "")
    ELSE IF ExceedsSize(Len(parts[i].buffer), FileSizeLimit)
    THEN Err("MulterError", <<"File too large">>, "LIMIT_FILE_SIZE")
    ELSE NoErr

\* the error multer calls next with: that of the first part that has one
MulterError(parts, fieldname, field, maxCount) ==
    LET bad == {i \in 1..Len(parts) :
                    PartError(parts, i, fieldname, field, maxCount) # NoErr}
    IN  IF bad = {} THEN NoErr
        ELSE PartError(parts, Minimum(bad), fieldname, field, maxCount)

\* the file object multer's memoryStorage attaches: size is the buffer length
MulterFile(part) ==
    [originalname |-> part.originalname, mimetype |-> part.mimetype,
     buffer |-> part.buffer, size |-> Len(part.buffer)]

-----------------------------------------------------------------------------
(* Routing: app.use('/api/files', fileRoutes) and the router's routes *)

Mount == <<"/", "a", "p", "i", "/", "f", "i", "l", "e", "s">>

SegHealth == <<"h", "e", "a", "l", "t", "h">>
SegUpload == <<"u", "p", "l", "o", "a", "d">>
SegMultiple == <<"m", "u", "l", "t", "i", "p", "l", "e">>
SegUrl == <<"u", "r", "l">>
SegInfo == <<"i", "n", "f", "o">>
SegList == <<"l", "i", "s", "t">>

\* the path segments below the mount point; <<>> when url is not below it.
\* A ':filename' parameter matches one non-empty segment without '/'.
Segments(url) ==
    IF StartsWith(url, Mount \o <<"/">>)
    THEN Split(SubSeq(url, Len(Mount) + 2, Len(url)), "/")
    ELSE <<>>

\* the route of fileRoutes.js that matches, in registration order
Route(method, url) ==
    LET seg == Segments(url)
    IN  IF method = "GET" /\ seg = <<SegHealth>> THEN "healthCheck"
        ELSE IF method = "POST" /\ seg = <<SegUpload>> THEN "uploadSingle"
        ELSE IF method = "POST" /\ seg = <<SegUpload, SegMultiple>> THEN "uploadMultiple"
        ELSE IF method = "GET" /\ Len(seg) = 2 /\ seg[1] = SegUrl /\ seg[2] # <<>>
        THEN "getFileUrl"
        ELSE IF method = "GET" /\ Len(seg) = 2 /\ seg[1] = SegInfo /\ seg[2] # <<>>
        THEN "getFileInfo"
        ELSE IF method = "GET" /\ seg = <<SegList>> THEN "listFiles"
        ELSE IF method = "DELETE" /\ Len(seg) = 1 /\ seg[1] # <<>> THEN "deleteFile"
        ELSE "notFound"

\* req.params.filename of the matched route
ParamFilename(method, url) ==
    LET seg == Segments(url)
        route == Route(method, url)
    IN  IF route \in {"getFileUrl", "getFileInfo"} THEN seg[2]
        ELSE IF route = "deleteFile" THEN seg[1]
        ELSE <<>>

\* the URL a client builds by putting a key verbatim after a route prefix
UrlInfo(key) == Mount \o <<"/">> \o SegInfo \o <<"/">> \o key
UrlUrl(key) == Mount \o <<"/">> \o SegUrl \o <<"/">> \o key
UrlDelete(key) == Mount \o <<"/">> \o key
UrlUpload == Mount \o <<"/">> \o SegUpload
UrlUploadMultiple == Mount \o <<"/">> \o SegUpload \o <<"/">> \o SegMultiple
UrlList == Mount \o <<"/">> \o SegList
UrlHealth == Mount \o <<"/">> \o SegHealth

-----------------------------------------------------------------------------
(* Query parameters *)

\* parseInt(s) of a decimal string: leading blanks, an optional sign, a run
\* of digits; NaN without a digit (and for an absent parameter, <<>>)
ParseInt(s) ==
    LET sp == RunLen(s, 1, SpaceSet)
        signed == sp + 1 <= Len(s) /\ s[sp + 1] \in {"-", "+"}
        from == IF signed THEN sp + 2 ELSE sp + 1
        n == RunLen(s, from, DigitSet)
        val == DecVal(SubSeq(s, from, from + n - 1))
    IN  IF n = 0 THEN [nan |-> TRUE, val |-> 0]
        ELSE [nan |-> FALSE,
              val |-> IF signed /\ s[sp + 1] = "-" THEN 0 - val ELSE val]

\* ParseIntOr had the handler not read the query parameter
ParseIntOrIgnored(s, dflt) == dflt

\* parseInt(s) || dflt
ParseIntOr(s, dflt) ==
    LET n == ParseInt(s)
    IN  IF n.nan \/ n.val = 0 THEN dflt ELSE n.val

-----------------------------------------------------------------------------
(* The storage service (MinioService) and the backend it calls *)

\* client.putObject(bucket, objectName, buffer, size, metaData): the bucket
\* afterwards; an existing object of that name is replaced
PutObject(st, objectName, buffer, size, metaData) ==
    [k \in DOMAIN st \cup {objectName} |->
        IF k = objectName
        THEN [data |-> buffer, size |-> size, metaData |-> metaData]
        ELSE st[k]]

\* removeObject had it removed every object
RemoveObjectAll(st, objectName) == <<>>

\* client.removeObject(bucket, objectName): the bucket afterwards
RemoveObject(st, objectName) ==
    [k \in DOMAIN st \ {objectName} |-> st[k]]

\* uploadFile up to its putObject call: the call's arguments
UploadFile(file, customPath, now, uuidv4) ==
    [objectName |-> ObjectName(file.originalname, customPath, now, uuidv4),
     buffer |-> file.buffer,
     size |-> file.size,
     metaData |-> [contentType |-> file.mimetype,
                   originalName |-> file.originalname,
                   uploadDate |-> now],
     put |-> "pending", sign |-> "none", expiresAt |-> 0]

\* the error a service method throws for a failed backend call
ServiceError(prefix, message) == Err("Error", <<prefix>> \o message, "")

\* getFileInfo had it not read stat.size
FileInfoWrongSize(st, objectName) ==
    [NoData EXCEPT !.keys = <<objectName>>, !.size = 0]

\* getFileInfo's result for a key the bucket holds
FileInfo(st, objectName) ==
    [NoData EXCEPT !.keys = <<objectName>>, !.size = st[objectName].size]

\* the keys listObjects(bucket, prefix, true) streams
Matching(st, prefix) == {k \in DOMAIN st : StartsWith(k, prefix)}

\* how many entries listFiles keeps of n streamed ones
Kept(n, maxKeys) ==
    IF maxKeys <= 0 THEN 0 ELSE IF n < maxKeys THEN n ELSE maxKeys

\* getPresignedUrl's grant
Grant(objectName, expiry, now) ==
    [key |-> objectName, expiresIn |-> expiry, expiresAt |-> now + expiry * 1000]

-----------------------------------------------------------------------------
(* Requests *)

NoArgs == [prefix |-> <<>>, maxKeys |-> 0, expiry |-> 0]

\* req.query without the parameters the handlers read
NoQuery == [prefix |-> <<>>, limit |-> <<>>, expiry |-> <<>>]

\* no request yet; sent counts the responses written for the request
Idle ==
    [pc |-> "idle", method |-> "", url |-> <<>>, route |-> "none",
     handler |-> "none", fieldname |-> "", parts |-> <<>>,
     filename |-> <<>>, query |-> NoQuery, args |-> NoArgs,
     items |-> <<>>, calls |-> <<>>, fault |-> <<>>, resp |-> NoResp,
     sent |-> 0]

\* a request answered with resp before any backend call
Answered(r, route, handler, resp) ==
    [Idle EXCEPT !.pc = "done", !.method = r.method, !.url = r.url,
                 !.route = route, !.handler = handler,
                 !.fieldname = r.fieldname, !.parts = r.parts,
                 !.resp = resp, !.sent = 1]

\* req.body.path || req.query.path || ''
CustomPath(r) ==
    IF r.bodyPath # <<>> THEN r.bodyPath
    ELSE IF r.queryPath # <<>> THEN r.queryPath
    ELSE <<>>

\* multer on an upload route: the error it passes to next, and the files it
\* attaches to the request (none for a body that is not multipart)
UploadError(r, field, maxCount) ==
    IF r.multipart THEN MulterError(r.parts, r.fieldname, field, maxCount)
    ELSE NoErr

UploadFiles(r) ==
    IF r.multipart THEN [j \in 1..Len(r.parts) |-> MulterFile(r.parts[j])]
    ELSE <<>>

\* UploadRoute had the controller not tested for a missing file
UploadRouteNoCheck(r, route, field, maxCount, noFileCode, noFileText, nows, uuids) ==
    LET merr == UploadError(r, field, maxCount)
        files == UploadFiles(r)
        items == [j \in 1..Len(files) |->
                     UploadFile(files[j], CustomPath(r), nows[j], uuids[j])]
    IN  IF merr # NoErr
        THEN Answered(r, route, "none", HandleMulterError(merr))
        ELSE [Idle EXCEPT !.pc = "put", !.method = r.method, !.url = r.url,
                          !.route = route, !.handler = route,
                          !.fieldname = r.fieldname, !.parts = r.parts,
                          !.items = items,
                          !.calls = [j \in 1..Len(items) |->
                                        [op |-> "putObject",
                                         key |-> items[j].objectName]]]

\* the upload routes: multer (upload.single / upload.array), then
\* handleMulterError on an error, else the controller up to its first await
UploadRoute(r, route, field, maxCount, noFileCode, noFileText, nows, uuids) ==
    LET merr == UploadError(r, field, maxCount)
        files == UploadFiles(r)
        items == [j \in 1..Len(files) |->
                     UploadFile(files[j], CustomPath(r), nows[j], uuids[j])]
    IN  IF merr # NoErr
        THEN Answered(r, route, "none", HandleMulterError(merr))
        ELSE IF files = <<>>
        THEN Answered(r, route, route, ErrorBody(400, <<noFileText>>, noFileCode, {}))
        ELSE [Idle EXCEPT !.pc = "put", !.method = r.method, !.url = r.url,
                          !.route = route, !.handler = route,
                          !.fieldname = r.fieldname, !.parts = r.parts,
                          !.items = items,
                          !.calls = [j \in 1..Len(items) |->
                                        [op |-> "putObject",
                                         key |-> items[j].objectName]]]

\* a controller method that makes one backend call and awaits it
OneCall(r, route, op, filename, args) ==
    [Idle EXCEPT !.pc = "call", !.method = r.method, !.url = r.url,
                 !.route = route, !.handler = route, !.filename = filename,
                 !.query = [prefix |-> r.prefix, limit |-> r.limit,
                            expiry |-> r.expiry],
                 !.args = args,
                 !.calls = <<[op |-> op, key |-> filename]>>]

\* the middleware chain for request r, up to the handler's first await
Dispatch(r, nows, uuids) ==
    LET route == Route(r.method, r.url)
        filename == ParamFilename(r.method, r.url)
    IN  IF route = "uploadSingle"
        THEN UploadRoute(r, route, "file", SingleMaxCount,
                         "NO_FILE", "No file provided", nows, uuids)
        ELSE IF route = "uploadMultiple"
        THEN UploadRoute(r, route, "files", ArrayMaxCount,
                         "NO_FILES", "No files provided", nows, uuids)
        ELSE IF route = "getFileUrl"
        THEN IF filename = <<>>
             THEN Answered(r, route, route,
                           ErrorBody(400, <<"Filename is required">>,
                                     "MISSING_FILENAME", {}))
             ELSE OneCall(r, route, "presignedGetObject", filename,
                          [NoArgs EXCEPT !.expiry = ParseIntOr(r.expiry, DefaultExpiry)])
        ELSE IF route = "getFileInfo"
        THEN IF filename = <<>>
             THEN Answered(r, route, route,
                           ErrorBody(400, <<"Filename is required">>,
                                     "MISSING_FILENAME", {}))
             ELSE OneCall(r, route, "statObject", filename, NoArgs)
        ELSE IF route = "deleteFile"
        THEN IF filename = <<>>
             THEN Answered(r, route, route,
                           ErrorBody(400, <<"Filename is required">>,
                                     "MISSING_FILENAME", {}))
             ELSE OneCall(r, route, "removeObject", filename, NoArgs)
        ELSE IF route = "listFiles"
        THEN OneCall(r, route, "listObjects", <<>>,
                     [NoArgs EXCEPT !.prefix = r.prefix,
                                    !.maxKeys = ParseIntOr(r.limit, DefaultMaxKeys)])
        ELSE IF route = "healthCheck"
        THEN OneCall(r, route, "bucketExists", <<>>, NoArgs)
        ELSE Answered(r, route, "none", NotFoundHandler)

\* config.security.corsOrigin, CORS_ORIGIN not set: a string (isArray false,
\* value the one string) or, with commas in CORS_ORIGIN, the array value
CorsOrigin == [isArray |-> FALSE, value |-> <<"http://localhost:3000">>]

\* CorsAllows had the callback not treated '*' as every origin
CorsAllowsListed(corsOrigin, origin) ==
    LET allowedOrigins == {corsOrigin.value[i] : i \in 1..Len(corsOrigin.value)}
    IN  origin = "" \/ origin \in allowedOrigins

\* the cors origin callback: callback(null, true)
CorsAllows(corsOrigin, origin) ==
    LET allowedOrigins == {corsOrigin.value[i] : i \in 1..Len(corsOrigin.value)}
    IN  \/ origin = ""
        \/ origin \in allowedOrigins
        \/ "*" \in allowedOrigins

\* the limiter's response to a request over the limit
RateLimitBody ==
    ErrorBody(429, <<"Too many requests">>, "RATE_LIMIT_EXCEEDED", {"message"})

\* app.js: cors, then the limiter on /api (overLimit: the client has used up
\* its requests of the window), then the routes; a request cors rejects goes
\* to errorHandler
AppWith(corsOrigin, r, origin, overLimit, nows, uuids) ==
    IF ~CorsAllows(corsOrigin, origin)
    THEN Answered(r, "none", "none",
                  ErrorHandler(Err("Error", <<"Not allowed by CORS">>, "")))
    ELSE IF overLimit
    THEN Answered(r, "none", "none", RateLimitBody)
    ELSE Dispatch(r, nows, uuids)

\* the same under the configured origin
App(r, origin, overLimit, nows, uuids) ==
    AppWith(CorsOrigin, r, origin, overLimit, nows, uuids)

\* how many files of request r reach uploadFile
Uploads(r) ==
    LET route == Route(r.method, r.url)
    IN  IF route = "uploadSingle" /\ UploadError(r, "file", SingleMaxCount) = NoErr
        THEN Len(UploadFiles(r))
        ELSE IF route = "uploadMultiple"
                /\ UploadError(r, "files", ArrayMaxCount) = NoErr
        THEN Len(UploadFiles(r))
        ELSE 0

-----------------------------------------------------------------------------
(* What the clients send *)

MimeVideoMp4 == <<"v", "i", "d", "e", "o", "/", "m", "p", "4">>
MimeTextPlain == <<"t", "e", "x", "t", "/", "p", "l", "a", "i", "n">>

NameAB == <<"a", ".", "b">>

FileA == [originalname |-> NameAB, mimetype |-> MimeVideoMp4, buffer |-> <<1>>]
FileB == [originalname |-> NameAB, mimetype |-> MimeVideoMp4, buffer |-> <<2, 2>>]
FileT == [originalname |-> <<"a">>, mimetype |-> MimeTextPlain, buffer |-> <<1>>]
FileL == [originalname |-> NameAB, mimetype |-> MimeVideoMp4,
          buffer |-> <<1, 1, 1, 1>>]

Files == {FileA, FileB, FileT, FileL}

\* n parts, all FileA
ManyParts(n) == [j \in 1..n |-> FileA]

\* the batches of file parts the upload requests carry: none, one or two
\* files, valid ones and ones the type or size policy rejects, and one file
\* more than multer's limit
Batches ==
    {<<>>, <<FileA>>, <<FileA, FileB>>, <<FileT>>, <<FileL>>,
     <<FileA, FileT>>, ManyParts(LimitFiles + 1)}

CustomPaths == {<<>>, <<"v">>}

GuessKey == <<"x">>

\* the keys a client may name: those in the bucket (an upload returned them,
\* a listing shows them), the one its last request named, and a guess
Targets == DOMAIN store \cup {req.filename} \cup {GuessKey}

Request(method, url) ==
    [method |-> method, url |-> url, multipart |-> FALSE, fieldname |-> "",
     parts |-> <<>>, bodyPath |-> <<>>, queryPath |-> <<>>, prefix |-> <<>>,
     limit |-> <<>>, expiry |-> <<>>]

\* the bodies of the upload requests: not multipart; multipart with the
\* files in the other route's field; multipart with a batch in the route's
\* field and a destination path in the body, in the query or in neither
UploadBodies(url, batches) ==
    LET field == IF url = UrlUpload THEN "file" ELSE "files"
        other == IF url = UrlUpload THEN "files" ELSE "file"
        post == Request("POST", url)
    IN  {post}
        \cup {[post EXCEPT !.multipart = TRUE, !.fieldname = other,
                           !.parts = <<FileA>>]}
        \cup {[post EXCEPT !.multipart = TRUE, !.fieldname = field,
                           !.parts = parts, !.bodyPath = path[1],
                           !.queryPath = path[2]] :
                 parts \in batches,
                 path \in {<<p, <<>> >> : p \in CustomPaths}}
        \cup {[post EXCEPT !.multipart = TRUE, !.fieldname = field,
                           !.parts = <<FileA>>, !.queryPath = <<"v">>]}

-----------------------------------------------------------------------------
(* Actions.  Requests are served one at a time: the next one is received    *)
(* once every backend call of the previous one has settled.                *)

\* no pure function has been applied
NoProbe == [fn |-> "none"]

\* startServer awaits initialize, which awaits bucketExists; calls are the
\* backend calls initialize has issued, fault the error it threw, exitCode
\* -1 while the process runs
Starting ==
    [pc |-> "bucketExists", calls |-> <<"bucketExists">>, fault |-> <<>>,
     exitCode |-> -1]

\* the process once app.listen has been called, initialize having found
\* the bucket
Init ==
    /\ store = <<>>
    /\ clock = 1
    /\ req = Idle
    /\ uploads = 0
    /\ probeIn = NoProbe
    /\ probeOut = NoProbe
    /\ server = [Starting EXCEPT !.pc = "listening"]
    /\ bucket = TRUE

\* no backend call of the request is in flight
Quiet(slot) ==
    \A j \in 1..Len(slot.items) :
        slot.items[j].put # "pending" /\ slot.items[j].sign # "pending"

\* request r arrives and runs up to its handler's first await;
\* uploadMultiple's map calls uploadFile for every file in one synchronous
\* loop, so the files read the same millisecond, and each draws a uuid
ReceiveAs(r, origin, overLimit) ==
    /\ server.pc = "listening"
    /\ req.pc = "idle" \/ (req.pc = "done" /\ Quiet(req))
    /\ LET n == IF CorsAllows(CorsOrigin, origin) /\ ~overLimit
                THEN Uploads(r) ELSE 0
       IN  \E uuids \in [1..n -> Uuids] :
              req' = App(r, origin, overLimit, [j \in 1..n |-> clock], uuids)
    /\ uploads' = uploads + (IF r.method = "POST" THEN 1 ELSE 0)
    /\ UNCHANGED <<store, clock, probeIn, probeOut, server, bucket>>

\* the Origin headers of the clients: none, the allowed one, another
Origins == {"", "http://localhost:3000", "http://evil.example"}

\* request r without an Origin header, from a client within its limit
Receive(r) == ReceiveAs(r, "", FALSE)

\* POST /api/files/upload or /upload/multiple
ReceiveUploadOf(batches) ==
    /\ uploads < MaxUploads
    /\ \E url \in {UrlUpload, UrlUploadMultiple} :
          \E r \in UploadBodies(url, batches) : Receive(r)

ReceiveUpload == ReceiveUploadOf(Batches)

\* GET /api/files/info/<key>
ReceiveInfo == \E k \in Targets : Receive(Request("GET", UrlInfo(k)))

\* GET /api/files/url/<key>[?expiry=]
ReceiveUrlOf(expiries) ==
    \E k \in Targets, expiry \in expiries :
        Receive([Request("GET", UrlUrl(k)) EXCEPT !.expiry = expiry])

ReceiveUrl == ReceiveUrlOf({<<>>, <<"7", "2", "0", "0">>})

\* DELETE /api/files/<key>
ReceiveDelete == \E k \in Targets : Receive(Request("DELETE", UrlDelete(k)))

\* GET /api/files/list[?prefix=][&limit=]
ReceiveListOf(prefixes, limits) ==
    \E prefix \in prefixes, limit \in limits :
        Receive([Request("GET", UrlList) EXCEPT
                    !.prefix = prefix, !.limit = limit])

ReceiveList == ReceiveListOf(CustomPaths, {<<>>, <<"1">>})

\* GET /api/files/health
ReceiveHealth == Receive(Request("GET", UrlHealth))

\* a request no route takes
ReceiveOther ==
    \E method \in {"GET", "PUT"} : Receive(Request(method, UrlUpload))

\* a request with any Origin header, from a client within or over its
\* limit (which depends on the requests the client has sent in the window):
\* an upload, a listing or a health check
ReceiveEdge ==
    \E origin \in Origins, overLimit \in BOOLEAN :
        \/ /\ uploads < MaxUploads
           /\ ReceiveAs([Request("POST", UrlUpload) EXCEPT
                            !.multipart = TRUE, !.fieldname = "file",
                            !.parts = <<FileA>>], origin, overLimit)
        \/ ReceiveAs(Request("GET", UrlList), origin, overLimit)
        \/ ReceiveAs(Request("GET", UrlHealth), origin, overLimit)

\* AfterPut had the handler waited with Promise.allSettled
AfterPutAllSettled(slot, items, msg) ==
    IF slot.pc # "put" THEN [slot EXCEPT !.items = items]
    ELSE IF \A j \in 1..Len(items) : items[j].put # "pending"
    THEN [slot EXCEPT !.pc = "sign",
                      !.items = [j \in 1..Len(items) |->
                                    [items[j] EXCEPT !.sign = "pending"]],
                      !.calls = @ \o [j \in 1..Len(items) |->
                                         [op |-> "presignedGetObject",
                                          key |-> items[j].objectName]]]
    ELSE [slot EXCEPT !.items = items]

\* AfterPut had the handler started the presigns once one put fulfilled
AfterPutSignEarly(slot, items, msg) ==
    IF slot.pc # "put" THEN [slot EXCEPT !.items = items]
    ELSE IF msg # <<>>
    THEN [slot EXCEPT !.items = items, !.pc = "done", !.fault = msg,
                      !.resp = ErrorHandler(ServiceError("Upload failed: ", msg)),
                      !.sent = @ + 1]
    ELSE [slot EXCEPT !.pc = "sign",
                      !.items = [j \in 1..Len(items) |->
                                    [items[j] EXCEPT !.sign = "pending"]],
                      !.calls = @ \o [j \in 1..Len(items) |->
                                         [op |-> "presignedGetObject",
                                          key |-> items[j].objectName]]]

\* AfterPut had the handler passed every failed put to next(error)
AfterPutEachFailure(slot, items, msg) ==
    IF msg # <<>>
    THEN [slot EXCEPT !.items = items, !.pc = "done", !.fault = msg,
                      !.resp = ErrorHandler(ServiceError("Upload failed: ", msg)),
                      !.sent = @ + 1]
    ELSE IF slot.pc = "put" /\ \A j \in 1..Len(items) : items[j].put = "ok"
    THEN [slot EXCEPT !.pc = "sign",
                      !.items = [j \in 1..Len(items) |->
                                    [items[j] EXCEPT !.sign = "pending"]],
                      !.calls = @ \o [j \in 1..Len(items) |->
                                         [op |-> "presignedGetObject",
                                          key |-> items[j].objectName]]]
    ELSE [slot EXCEPT !.items = items]

\* uploadSingle / uploadMultiple after the putObject of item j settled with
\* msg (<<>>: fulfilled): Promise.all rejects on the first failure and
\* fulfils once every put has; a handler that has answered ignores it
AfterPut(slot, items, msg) ==
    IF slot.pc # "put" THEN [slot EXCEPT !.items = items]
    ELSE IF msg # <<>>
    THEN [slot EXCEPT !.items = items, !.pc = "done", !.fault = msg,
                      !.resp = ErrorHandler(ServiceError("Upload failed: ", msg)),
                      !.sent = @ + 1]
    ELSE IF \A j \in 1..Len(items) : items[j].put = "ok"
    THEN [slot EXCEPT !.pc = "sign",
                      !.items = [j \in 1..Len(items) |->
                                    [items[j] EXCEPT !.sign = "pending"]],
                      !.calls = @ \o [j \in 1..Len(items) |->
                                         [op |-> "presignedGetObject",
                                          key |-> items[j].objectName]]]
    ELSE [slot EXCEPT !.items = items]

\* UploadData had the handler attached urls[n + 1 - i] to results[i]
UploadDataReversed(slot, items) ==
    [NoData EXCEPT
        !.keys = [j \in 1..Len(items) |-> items[j].objectName],
        !.grants = [j \in 1..Len(items) |->
                       [key |-> items[Len(items) + 1 - j].objectName,
                        expiresIn |-> DefaultExpiry,
                        expiresAt |-> items[Len(items) + 1 - j].expiresAt]],
        !.count = IF slot.handler = "uploadMultiple" THEN Len(items) ELSE -1]

\* the data of the 201 response
UploadData(slot, items) ==
    [NoData EXCEPT
        !.keys = [j \in 1..Len(items) |-> items[j].objectName],
        !.grants = [j \in 1..Len(items) |->
                       [key |-> items[j].objectName, expiresIn |-> DefaultExpiry,
                        expiresAt |-> items[j].expiresAt]],
        !.count = IF slot.handler = "uploadMultiple" THEN Len(items) ELSE -1]

\* AfterSign had the handler put the files again after a failed presign
AfterSignRetry(slot, items, msg) ==
    IF slot.pc # "sign" THEN [slot EXCEPT !.items = items]
    ELSE IF msg # <<>>
    THEN [slot EXCEPT !.pc = "put",
                      !.items = [j \in 1..Len(items) |->
                                    [items[j] EXCEPT !.put = "pending",
                                                     !.sign = "none"]],
                      !.calls = @ \o [j \in 1..Len(items) |->
                                         [op |-> "putObject",
                                          key |-> items[j].objectName]]]
    ELSE IF \A j \in 1..Len(items) : items[j].sign = "ok"
    THEN [slot EXCEPT !.items = items, !.pc = "done",
                      !.resp = SuccessBody(201, UploadData(slot, items)),
                      !.sent = @ + 1]
    ELSE [slot EXCEPT !.items = items]

\* the same after the presign of item j settled
AfterSign(slot, items, msg) ==
    IF slot.pc # "sign" THEN [slot EXCEPT !.items = items]
    ELSE IF msg # <<>>
    THEN [slot EXCEPT !.items = items, !.pc = "done", !.fault = msg,
                      !.resp = ErrorHandler(
                                   ServiceError("Failed to generate URL: ", msg)),
                      !.sent = @ + 1]
    ELSE IF \A j \in 1..Len(items) : items[j].sign = "ok"
    THEN [slot EXCEPT !.items = items, !.pc = "done",
                      !.resp = SuccessBody(201, UploadData(slot, items)),
                      !.sent = @ + 1]
    ELSE [slot EXCEPT !.items = items]

\* the putObject of file j settles
PutObjectDone(j) ==
    /\ req.pc \in {"put", "done"}
    /\ req.items[j].put = "pending"
    /\ \E msg \in BucketOutcomes :
          LET it == req.items[j]
              items == [req.items EXCEPT
                           ![j].put = IF msg = <<>> THEN "ok" ELSE "failed"]
          IN  /\ store' = IF msg = <<>>
                          THEN PutObject(store, it.objectName, it.buffer,
                                         it.size, it.metaData)
                          ELSE store
              /\ req' = AfterPut(req, items, msg)
    /\ UNCHANGED <<clock, uploads, probeIn, probeOut, server, bucket>>

\* the presignedGetObject of file j of an upload settles
PresignDone(j) ==
    /\ req.pc \in {"sign", "done"}
    /\ req.items[j].sign = "pending"
    /\ \E msg \in {<<>>} \cup BackendFaults :
          LET items == [req.items EXCEPT
                           ![j].sign = IF msg = <<>> THEN "ok" ELSE "failed",
                           ![j].expiresAt = IF msg = <<>>
                                            THEN clock + DefaultExpiry * 1000
                                            ELSE 0]
          IN  req' = AfterSign(req, items, msg)
    /\ UNCHANGED <<store, clock, uploads, probeIn, probeOut, server, bucket>>

\* the one backend call of the request settles with msg and the handler
\* answers with resp
Settle(msg, resp) ==
    req' = [req EXCEPT !.pc = "done", !.fault = msg, !.resp = resp,
                       !.sent = @ + 1]

\* StatObjectDone had getFileInfo removed the object it described
StatObjectDoneRemoves ==
    /\ req.pc = "call" /\ req.handler = "getFileInfo"
    /\ \E msg \in {<<>>} \cup BackendFaults :
          LET key == req.filename
              err == IF msg # <<>> THEN msg
                     ELSE IF key \notin DOMAIN store THEN MsgNotFound
                     ELSE <<>>
          IN  /\ Settle(msg,
                        IF err # <<>>
                        THEN ErrorHandler(ServiceError("File info failed: ", err))
                        ELSE SuccessBody(200, FileInfo(store, key)))
              /\ store' = IF err = <<>> THEN RemoveObject(store, key) ELSE store
    /\ UNCHANGED <<clock, uploads, probeIn, probeOut, server, bucket>>

\* getFileInfo: statObject settles
StatObjectDone ==
    /\ req.pc = "call" /\ req.handler = "getFileInfo"
    /\ \E msg \in BucketOutcomes :
          LET key == req.filename
              err == IF msg # <<>> THEN msg
                     ELSE IF key \notin DOMAIN store THEN MsgNotFound
                     ELSE <<>>
          IN  Settle(msg,
                     IF err # <<>>
                     THEN ErrorHandler(ServiceError("File info failed: ", err))
                     ELSE SuccessBody(200, FileInfo(store, key)))
    /\ UNCHANGED <<store, clock, uploads, probeIn, probeOut, server, bucket>>

\* deleteFile: removeObject settles
RemoveObjectDone ==
    /\ req.pc = "call" /\ req.handler = "deleteFile"
    /\ \E msg \in BucketOutcomes :
          /\ store' = IF msg = <<>> THEN RemoveObject(store, req.filename)
                      ELSE store
          /\ Settle(msg,
                    IF msg # <<>>
                    THEN ErrorHandler(ServiceError("Delete failed: ", msg))
                    ELSE SuccessBody(200, NoData))
    /\ UNCHANGED <<clock, uploads, probeIn, probeOut, server, bucket>>

\* the entries listFiles resolves with when the stream yields the keys S
Listing(st, S) ==
    [NoData EXCEPT !.listed = {[name |-> k, size |-> st[k].size] : k \in S},
                   !.count = Cardinality(S)]

\* listFiles: the listObjects stream ends or fails; the stream's order is
\* the backend's, so any Kept(...) of the matching keys may come first
ListObjectsDone ==
    /\ req.pc = "call" /\ req.handler = "listFiles"
    /\ \/ \E msg \in BucketOutcomes \ {<<>>} :
             Settle(msg, ErrorHandler(ServiceError("List failed: ", msg)))
       \/ \E S \in SUBSET Matching(store, req.args.prefix) :
             /\ <<>> \in BucketOutcomes
             /\ Cardinality(S)
                  = Kept(Cardinality(Matching(store, req.args.prefix)),
                         req.args.maxKeys)
             /\ Settle(<<>>, SuccessBody(200, Listing(store, S)))
    /\ UNCHANGED <<store, clock, uploads, probeIn, probeOut, server, bucket>>

\* getFileUrl: presignedGetObject settles
PresignedUrlDone ==
    /\ req.pc = "call" /\ req.handler = "getFileUrl"
    /\ \E msg \in {<<>>} \cup BackendFaults :
          Settle(msg,
                 IF msg # <<>>
                 THEN ErrorHandler(ServiceError("Failed to generate URL: ", msg))
                 ELSE SuccessBody(200,
                          [NoData EXCEPT
                              !.grants = <<Grant(req.filename,
                                                 req.args.expiry, clock)>>]))
    /\ UNCHANGED <<store, clock, uploads, probeIn, probeOut, server, bucket>>

\* BucketExistsDone had healthCheck passed the error to next(error)
BucketExistsDoneNext ==
    /\ req.pc = "call" /\ req.handler = "healthCheck"
    /\ \E msg \in {<<>>} \cup BackendFaults :
          Settle(msg,
                 IF msg # <<>>
                 THEN ErrorHandler(Err("Error", msg, ""))
                 ELSE SuccessBody(200, [NoData EXCEPT !.status = "healthy",
                                                      !.minio = "connected"]))
    /\ UNCHANGED <<store, clock, uploads, probeIn, probeOut, server, bucket>>

\* healthCheck: bucketExists settles
BucketExistsDone ==
    /\ req.pc = "call" /\ req.handler = "healthCheck"
    /\ \E msg \in {<<>>} \cup BackendFaults :
          Settle(msg,
                 IF msg # <<>>
                 THEN [ErrorBody(503, <<"Service unhealthy">>,
                                 "SERVICE_UNHEALTHY", {"data"})
                          EXCEPT !.data = [NoData EXCEPT
                                              !.status = "unhealthy",
                                              !.minio = "disconnected"]]
                 ELSE SuccessBody(200, [NoData EXCEPT !.status = "healthy",
                                                      !.minio = "connected"]))
    /\ UNCHANGED <<store, clock, uploads, probeIn, probeOut, server, bucket>>

\* a millisecond passes
Tick ==
    /\ clock < MaxClock
    /\ clock' = clock + 1
    /\ UNCHANGED <<store, req, uploads, probeIn, probeOut, server, bucket>>

Next ==
    \/ ReceiveUpload
    \/ ReceiveInfo
    \/ ReceiveUrl
    \/ ReceiveDelete
    \/ ReceiveList
    \/ ReceiveHealth
    \/ ReceiveOther
    \/ ReceiveEdge
    \/ \E j \in 1..Len(req.items) : PutObjectDone(j)
    \/ \E j \in 1..Len(req.items) : PresignDone(j)
    \/ StatObjectDone
    \/ RemoveObjectDone
    \/ ListObjectsDone
    \/ PresignedUrlDone
    \/ BucketExistsDone
    \/ Tick

Spec == Init /\ [][Next]_vars

-----------------------------------------------------------------------------
(* Startup: startServer from the start of the process, with the bucket     *)
(* there or not, and the requests of ReceiveEdge once the server listens   *)

\* the process starts: startServer has called initialize
InitStart ==
    /\ store = <<>>
    /\ clock = 1
    /\ req = Idle
    /\ uploads = 0
    /\ probeIn = NoProbe
    /\ probeOut = NoProbe
    /\ server = Starting
    /\ bucket \in BOOLEAN

\* startServer's catch: process.exit(1)
Exited(msg) == [server EXCEPT !.pc = "exited", !.fault = msg, !.exitCode = 1]

\* startServer after initialize has returned: app.listen
Listening == [server EXCEPT !.pc = "listening"]

\* InitializeExists had startServer not awaited initialize
InitializeExistsNoAwait ==
    /\ server.pc = "bucketExists"
    /\ \E msg \in {<<>>} \cup BackendFaults :
          server' = [Listening EXCEPT !.fault = msg]
    /\ UNCHANGED <<store, clock, req, uploads, probeIn, probeOut, bucket>>

\* InitializeExists had initialize called makeBucket whatever bucketExists
\* returned
InitializeExistsAlwaysMake ==
    /\ server.pc = "bucketExists"
    /\ \E msg \in {<<>>} \cup BackendFaults :
          server' = IF msg # <<>> THEN Exited(msg)
                    ELSE [server EXCEPT !.pc = "makeBucket",
                                        !.calls = @ \o <<"makeBucket">>]
    /\ UNCHANGED <<store, clock, req, uploads, probeIn, probeOut, bucket>>

\* initialize: bucketExists settles
InitializeExists ==
    /\ server.pc = "bucketExists"
    /\ \E msg \in {<<>>} \cup BackendFaults :
          server' = IF msg # <<>> THEN Exited(msg)
                    ELSE IF bucket THEN Listening
                    ELSE [server EXCEPT !.pc = "makeBucket",
                                        !.calls = @ \o <<"makeBucket">>]
    /\ UNCHANGED <<store, clock, req, uploads, probeIn, probeOut, bucket>>

\* initialize: makeBucket settles
InitializeMake ==
    /\ server.pc = "makeBucket"
    /\ \E msg \in {<<>>} \cup BackendFaults :
          /\ server' = IF msg # <<>> THEN Exited(msg) ELSE Listening
          /\ bucket' = (msg = <<>> \/ bucket)
    /\ UNCHANGED <<store, clock, req, uploads, probeIn, probeOut>>

NextStart ==
    \/ InitializeExists
    \/ InitializeMake
    \/ ReceiveEdge
    \/ \E j \in 1..Len(req.items) : PutObjectDone(j)
    \/ \E j \in 1..Len(req.items) : PresignDone(j)
    \/ ListObjectsDone
    \/ BucketExistsDone
    \/ Tick

SpecStart == InitStart /\ [][NextStart]_vars

\* the process is started again (after an exit, or replacing a running
\* one): startServer runs initialize against the same backend
Restart ==
    /\ server.pc \in {"listening", "exited"}
    /\ server' = Starting
    /\ req' = Idle
    /\ UNCHANGED <<store, clock, uploads, probeIn, probeOut, bucket>>

NextRestart ==
    \/ InitializeExists
    \/ InitializeMake
    \/ Restart
    \/ ReceiveEdge
    \/ \E j \in 1..Len(req.items) : PutObjectDone(j)
    \/ \E j \in 1..Len(req.items) : PresignDone(j)
    \/ ListObjectsDone
    \/ BucketExistsDone
    \/ Tick

SpecRestart == InitStart /\ [][NextRestart]_vars

-----------------------------------------------------------------------------
(* The process against a backend whose bucket an operator may remove while *)
(* it runs: uploads, listings and health checks before and after           *)

\* the bucket, empty, is removed in the backend
BucketRemoved ==
    /\ server.pc = "listening"
    /\ bucket
    /\ store = <<>>
    /\ bucket' = FALSE
    /\ UNCHANGED <<store, clock, req, uploads, probeIn, probeOut, server>>

NextHealth ==
    \/ InitializeExists
    \/ InitializeMake
    \/ Restart
    \/ BucketRemoved
    \/ ReceiveEdge
    \/ \E j \in 1..Len(req.items) : PutObjectDone(j)
    \/ \E j \in 1..Len(req.items) : PresignDone(j)
    \/ ListObjectsDone
    \/ BucketExistsDone
    \/ Tick

SpecHealth == InitStart /\ [][NextHealth]_vars

-----------------------------------------------------------------------------
(* The naming policy on its own: uploadFile's object name for every        *)
(* original name of up to MaxNameLen characters                            *)

OriginalNames == SeqsOf(NameChars, 1, MaxNameLen)

\* uploadFile names a file
NameFile ==
    /\ probeIn = NoProbe
    /\ \E originalName \in OriginalNames, customPath \in CustomPaths,
          now \in 1..MaxClock, uuidv4 \in Uuids :
          /\ probeIn' = [fn |-> "uploadFile", originalName |-> originalName,
                         customPath |-> customPath, now |-> now,
                         uuidv4 |-> uuidv4]
          /\ probeOut' = [fn |-> "uploadFile",
                          uniqueFilename |->
                              GenerateUniqueFilename(originalName, now, uuidv4),
                          objectName |->
                              ObjectName(originalName, customPath, now, uuidv4)]
    /\ UNCHANGED <<store, clock, req, uploads, server, bucket>>

NextNaming == NameFile

SpecNaming == Init /\ [][NextNaming]_vars

-----------------------------------------------------------------------------
(* The file filter on its own: every declared type of up to MaxTypeLen     *)
(* characters against allow-lists of one or two entries                    *)

TypeChars == {"v", "x", "/"}

MimeTypes == SeqsOf(TypeChars, 1, MaxTypeLen)

\* allow-list entries: a wildcard, an exact type, and malformed wildcards
AllowEntries ==
    {<<"v", "/", "*">>, <<"v", "/", "x">>, <<"x", "/", "*">>, <<"v", "*">>}

AllowLists == SeqsOf(AllowEntries, 1, 2)

\* multer asks the filter about a file part
FilterFile ==
    /\ probeIn = NoProbe
    /\ \E allowedTypes \in AllowLists, mimetype \in MimeTypes :
          /\ probeIn' = [fn |-> "fileFilter", allowedTypes |-> allowedTypes,
                         mimetype |-> mimetype]
          /\ probeOut' = [fn |-> "fileFilter",
                          isAllowed |-> FileFilter(allowedTypes, mimetype)]
    /\ UNCHANGED <<store, clock, req, uploads, server, bucket>>

NextFilter == FilterFile

SpecFilter == Init /\ [][NextFilter]_vars

-----------------------------------------------------------------------------
(* Batches of every size from none to two more than multer's file limit,   *)
(* up to the point where the decode has ended and uploadMultiple, if it    *)
(* runs, has issued its puts                                               *)

BatchSizes == 0..(LimitFiles + 2)

\* POST /api/files/upload/multiple with n valid files in field 'files'
ReceiveBatch ==
    /\ uploads < MaxUploads
    /\ \E n \in BatchSizes :
          Receive([Request("POST", UrlUploadMultiple) EXCEPT
                      !.multipart = TRUE, !.fieldname = "files",
                      !.parts = ManyParts(n)])

NextBatch == ReceiveBatch \/ Tick

SpecBatch == Init /\ [][NextBatch]_vars

-----------------------------------------------------------------------------
(* The size policy on its own: parseSize of a configured string, and the   *)
(* decode of one file under the limit it yields                            *)

\* the numbers a size string is written with, with the value they denote
SizeNumbers ==
    {[text |-> <<"0">>, num |-> 0, den |-> 1],
     [text |-> <<"1">>, num |-> 1, den |-> 1],
     [text |-> <<"3">>, num |-> 3, den |-> 1],
     [text |-> <<"1", "0">>, num |-> 10, den |-> 1],
     [text |-> <<"0", ".", "5">>, num |-> 1, den |-> 2],
     [text |-> <<"1", ".", "5">>, num |-> 3, den |-> 2],
     [text |-> <<"2", ".", "2", "5">>, num |-> 9, den |-> 4]}

\* the units, in the spellings the /i flag admits, with their bytes
SizeUnits ==
    {[text |-> <<"B">>, bytes |-> 1],
     [text |-> <<"b">>, bytes |-> 1],
     [text |-> <<"K", "B">>, bytes |-> 1024],
     [text |-> <<"k", "b">>, bytes |-> 1024],
     [text |-> <<"M", "B">>, bytes |-> 1024 * 1024],
     [text |-> <<"M", "b">>, bytes |-> 1024 * 1024],
     [text |-> <<"G", "B">>, bytes |-> 1024 * 1024 * 1024]}

SizeBlanks == {<<>>, <<" ">>, <<" ", "\t">>}

\* MAX_FILE_SIZE values that match parseSize's pattern (a GB figure only
\* when it is 0 or 1)
SizeStrings ==
    {[number |-> n, unit |-> u, text |-> n.text \o sp \o u.text] :
        n \in {m \in SizeNumbers : m.den = 1 /\ m.num <= 1},
        u \in SizeUnits, sp \in SizeBlanks}
    \cup {[number |-> n, unit |-> u, text |-> n.text \o sp \o u.text] :
        n \in SizeNumbers, u \in {v \in SizeUnits : v.bytes <= 1024 * 1024},
        sp \in SizeBlanks}

\* MAX_FILE_SIZE values that do not match it
BadSizeStrings ==
    {<<"5">>, <<"M", "B">>, <<"5", "T", "B">>, <<" ", "5", "M", "B">>,
     <<"5", "M", "B", " ">>, <<"5", ".", "M", "B">>, <<".", "5", "M", "B">>,
     <<"5", ",", "5", "M", "B">>, <<"-", "5", "M", "B">>, <<>>}

\* multer on one file of size bytes in the route's field and of an allowed
\* type, under limits.fileSize = limit: the response of handleMulterError,
\* NoResp when the file passes the decode
DecodeSized(size, limit) ==
    IF ExceedsSize(size, limit)
    THEN HandleMulterError(Err("MulterError", <<"File too large">>,
                               "LIMIT_FILE_SIZE"))
    ELSE NoResp

\* the middleware is loaded with MAX_FILE_SIZE = sizeStr and decodes a file
\* whose size is the whole bytes of the limit plus delta
ApplySize(sizeStr, delta) ==
    LET limit == ParseSize(sizeStr)
        size == (limit.num \div limit.den) + delta
    IN  /\ size >= 0
        /\ probeOut' = [fn |-> "parseSize", limit |-> limit, size |-> size,
                        resp |-> DecodeSized(size, limit)]

SizeFile ==
    /\ probeIn = NoProbe
    /\ \E delta \in -1..1 :
          \/ \E c \in SizeStrings :
                /\ probeIn' = [fn |-> "parseSize", matches |-> TRUE,
                               sizeStr |-> c.text, number |-> c.number,
                               unit |-> c.unit]
                /\ ApplySize(c.text, delta)
          \/ \E t \in BadSizeStrings :
                /\ probeIn' = [fn |-> "parseSize", matches |-> FALSE,
                               sizeStr |-> t, number |-> [text |-> <<>>, num |-> 0, den |-> 1],
                               unit |-> [text |-> <<>>, bytes |-> 0]]
                /\ ApplySize(t, delta)
    /\ UNCHANGED <<store, clock, req, uploads, server, bucket>>

NextSize == SizeFile

SpecSize == Init /\ [][NextSize]_vars

-----------------------------------------------------------------------------
(* The query parameters of getFileUrl and listFiles: every spelling of     *)
(* expiry and limit below, against a bucket that holds three objects       *)

\* ?expiry= values: absent, positive integers, zero, negative, not a number
ExpiryValues ==
    {<<>>, <<"1">>, <<"6", "0">>, <<"7", "2", "0", "0">>, <<"0">>,
     <<"-", "5">>, <<"a">>}

\* ?limit= values: absent, natural numbers, negative, not a number
LimitValues == {<<>>, <<"0">>, <<"1">>, <<"2">>, <<"-", "1">>, <<"a">>}

\* ?prefix= values: absent, a destination path, the start of a file name
PrefixValues == {<<>>, <<"v">>, <<"a">>}

\* three files as uploadFile hands them to putObject in millisecond 1, one
\* of them under the destination path 'v'
SeedItems ==
    <<UploadFile(MulterFile(FileA), <<>>, 1, UuidOf("0")),
      UploadFile(MulterFile(FileB), <<>>, 1, UuidOf("a")),
      UploadFile(MulterFile(FileB), <<"v">>, 1, UuidOf("a"))>>

\* the bucket after the puts of the first n of them
RECURSIVE Seeded(_)
Seeded(n) ==
    IF n = 0 THEN <<>>
    ELSE LET it == SeedItems[n]
         IN  PutObject(Seeded(n - 1), it.objectName, it.buffer, it.size,
                       it.metaData)

\* the server listens and earlier uploads have left three objects
InitQuery ==
    /\ store = Seeded(Len(SeedItems))
    /\ clock = 1
    /\ req = Idle
    /\ uploads = 0
    /\ probeIn = NoProbe
    /\ probeOut = NoProbe
    /\ server = [Starting EXCEPT !.pc = "listening"]
    /\ bucket = TRUE

NextQuery ==
    \/ ReceiveUrlOf(ExpiryValues)
    \/ ReceiveListOf(PrefixValues, LimitValues)
    \/ ListObjectsDone
    \/ PresignedUrlDone
    \/ Tick

SpecQuery == InitQuery /\ [][NextQuery]_vars

-----------------------------------------------------------------------------
(* The error handler on its own: errorHandler for error objects of every   *)
(* name, message, statusCode and code below, and for the errors the        *)
(* service methods throw when the backend cannot be reached                *)

ErrNames == {"Error", "ValidationError", "UnauthorizedError", "TypeError"}


ErrMessages ==
    {<<>>, <<"Bad request">>, MsgConnRefused, MsgNoSuchBucket, MsgAccessDenied,
     MsgNoSuchBucket \o MsgConnRefused, MsgAccessDenied \o MsgNoSuchBucket}

\* err.statusCode: undefined, or set by whoever raised the error
ErrStatusCodes == {0, 400, 422}

\* err.code: undefined, or set by whoever raised the error
ErrCodes == {"", "BAD_REQUEST"}

\* what net.connect fails with when the backend host is down, does not
\* answer, or refuses the connection
MsgHostUnreach == <<"connect ", "EHOSTUNREACH", " 127.0.0.1:9000">>
MsgTimedOut == <<"connect ", "ETIMEDOUT", " 127.0.0.1:9000">>

ConnectivityFaults == {MsgConnRefused, MsgHostUnreach, MsgTimedOut}

\* the prefixes uploadFile, getPresignedUrl, deleteFile, listFiles and
\* getFileInfo wrap a backend error with
ServicePrefixes ==
    {"Upload failed: ", "Failed to generate URL: ", "Delete failed: ",
     "List failed: ", "File info failed: "}

\* next(err) reaches errorHandler
HandleError ==
    /\ probeIn = NoProbe
    /\ \/ \E name \in ErrNames, message \in ErrMessages,
             statusCode \in ErrStatusCodes, code \in ErrCodes :
             LET err == [Err(name, message, code) EXCEPT
                            !.statusCode = statusCode]
             IN  /\ probeIn' = [fn |-> "errorHandler", err |-> err,
                                fault |-> <<>>]
                 /\ probeOut' = [fn |-> "errorHandler",
                                 resp |-> ErrorHandler(err)]
       \/ \E prefix \in ServicePrefixes, msg \in ConnectivityFaults :
             LET err == ServiceError(prefix, msg)
             IN  /\ probeIn' = [fn |-> "errorHandler", err |-> err,
                                fault |-> msg]
                 /\ probeOut' = [fn |-> "errorHandler",
                                 resp |-> ErrorHandler(err)]
    /\ UNCHANGED <<store, clock, req, uploads, server, bucket>>

NextHandler == HandleError

SpecHandler == Init /\ [][NextHandler]_vars

-----------------------------------------------------------------------------
(* The cors check on its own: a health request with every Origin header    *)
(* below, under every configured origin (one value or a list) below        *)

OriginNames == {"http://a", "http://b", "http://c", "*"}

\* config.security.corsOrigin: a string, or an array of two
CorsConfigs ==
    {[isArray |-> FALSE, value |-> <<a>>] : a \in OriginNames}
        \cup {[isArray |-> TRUE, value |-> <<a, b>>] :
                    a \in OriginNames, b \in OriginNames}

\* the Origin header: none, or a name
OriginHeaders == {""} \cup OriginNames \cup {"http://d"}

\* GET /api/files/health with Origin header origin, up to the handler's
\* first await
CheckOrigin ==
    /\ probeIn = NoProbe
    /\ \E corsOrigin \in CorsConfigs, origin \in OriginHeaders :
          /\ probeIn' = [fn |-> "cors", corsOrigin |-> corsOrigin,
                         origin |-> origin]
          /\ probeOut' = [fn |-> "cors",
                          req |-> AppWith(corsOrigin, Request("GET", UrlHealth),
                                          origin, FALSE, <<>>, <<>>)]
    /\ UNCHANGED <<store, clock, req, uploads, server, bucket>>

NextCors == CheckOrigin

SpecCors == Init /\ [][NextCors]_vars

-----------------------------------------------------------------------------
(* Properties of the upload handlers *)

UploadRoutes == {"uploadSingle", "uploadMultiple"}

\* the backend operations the request has issued
Ops == {req.calls[j].op : j \in 1..Len(req.calls)}

\* the put or the presign of file j has failed
Failed(j) == req.items[j].put = "failed" \/ req.items[j].sign = "failed"

\* the error responses of a failed upload
UploadFailures ==
    {ErrorHandler(ServiceError(prefix, req.fault)) :
        prefix \in {"Upload failed: ", "Failed to generate URL: "}}

\* C1: in uploadMultiple, once the put or the presign of any file has
\* failed, the request is answered with the error response of that failure
\* and never with 201; the handler issues no removeObject, and every file of
\* the batch whose put succeeded is in the bucket.
C1_BatchFailure ==
    req.handler = "uploadMultiple" =>
        /\ "removeObject" \notin Ops
        /\ \A j \in 1..Len(req.items) :
              req.items[j].put = "ok" => req.items[j].objectName \in DOMAIN store
        /\ (\E j \in 1..Len(req.items) : Failed(j)) =>
              /\ req.pc = "done"
              /\ req.fault \in BackendFaults
              /\ ~req.resp.success
              /\ req.resp.status \in {500, 503}
              /\ req.resp \in UploadFailures

\* a batch of two: the first file is stored, the put of the second failed,
\* the request is answered 503 and every call has settled
C1_Witness ==
    /\ req.handler = "uploadMultiple"
    /\ req.pc = "done"
    /\ Len(req.items) = 2
    /\ req.items[1].put = "ok"
    /\ req.items[2].put = "failed"
    /\ req.resp.status = 503
    /\ req.items[1].objectName \in DOMAIN store

\* C2: uploadSingle with a file issues putObject first and
\* presignedGetObject, with the default expiry, only once the put has
\* succeeded; when the presign then fails, the object is in the bucket, the
\* calls issued are that one put and that one presign (no removeObject, no
\* second put), and the response is the error response.
C2_PutThenPresign ==
    (req.handler = "uploadSingle" /\ req.items # <<>>) =>
        LET it == req.items[1]
            put == [op |-> "putObject", key |-> it.objectName]
            sign == [op |-> "presignedGetObject", key |-> it.objectName]
        IN  /\ Len(req.items) = 1
            /\ req.calls \in {<<put>>, <<put, sign>>}
            /\ Len(req.calls) = 2 =>
                  it.put = "ok" /\ it.objectName \in DOMAIN store
            /\ it.put = "failed" =>
                  req.calls = <<put>> /\ req.pc = "done" /\ ~req.resp.success
            /\ it.sign = "failed" =>
                  /\ it.objectName \in DOMAIN store
                  /\ req.pc = "done"
                  /\ ~req.resp.success
                  /\ req.resp = ErrorHandler(
                                    ServiceError("Failed to generate URL: ",
                                                 req.fault))
            /\ (req.pc = "done" /\ req.resp.success) =>
                  /\ req.resp.status = 201
                  /\ req.resp.data.keys = <<it.objectName>>
                  /\ req.resp.data.grants[1].expiresIn = 3600

\* the put succeeded, the presign failed, the object is stored, 503 is sent
C2_Witness ==
    /\ req.handler = "uploadSingle"
    /\ req.pc = "done"
    /\ Len(req.items) = 1
    /\ req.items[1].put = "ok"
    /\ req.items[1].sign = "failed"
    /\ req.items[1].objectName \in DOMAIN store
    /\ req.resp.status = 503

\* a file part the type policy or the size policy rejects
BadPart(part) ==
    \/ ~FileFilter(AllowedFileTypes, part.mimetype)
    \/ ExceedsSize(Len(part.buffer), FileSizeLimit)

\* the field the route takes its files from
FieldOf(route) == IF route = "uploadSingle" THEN "file" ELSE "files"

\* C3: on both upload routes, a request with a file that the type policy or
\* the size policy rejects is answered 400 with no backend call issued and no
\* file of the request handed to uploadFile; a response INVALID_FILE_TYPE or
\* FILE_TOO_LARGE is sent by the decode, before the controller runs.
C3_RejectBeforeStorage ==
    req.route \in UploadRoutes =>
        /\ req.resp.code \in {"INVALID_FILE_TYPE", "FILE_TOO_LARGE"} =>
              /\ req.pc = "done"
              /\ req.resp.status = 400
              /\ req.handler = "none"
              /\ req.calls = <<>>
              /\ req.items = <<>>
        /\ (\E i \in 1..Len(req.parts) : BadPart(req.parts[i])) =>
              /\ req.pc = "done"
              /\ req.resp.status = 400
              /\ req.resp.code \in {"INVALID_FILE_TYPE", "FILE_TOO_LARGE",
                                    "TOO_MANY_FILES", "UNEXPECTED_FIELD"}
              /\ req.calls = <<>>
              /\ req.items = <<>>
        /\ (req.parts # <<>> /\ req.fieldname = FieldOf(req.route)
              /\ BadPart(req.parts[1])) =>
              req.resp.code =
                  IF ~FileFilter(AllowedFileTypes, req.parts[1].mimetype)
                  THEN "INVALID_FILE_TYPE" ELSE "FILE_TOO_LARGE"

\* a batch of a valid file and a text file is rejected for the type
C3_Witness ==
    /\ req.route = "uploadMultiple"
    /\ req.parts = <<FileA, FileT>>
    /\ req.resp.code = "INVALID_FILE_TYPE"
    /\ req.resp.status = 400
    /\ req.calls = <<>>
    /\ store = <<>>

\* C7: an upload request without a file payload (no multipart body, or one
\* with no file part) is answered 400 with code NO_FILE on the single
\* route and NO_FILES on the batch route, and issues no backend call.
C7_NoFile ==
    (req.route \in UploadRoutes /\ req.parts = <<>>) =>
        /\ req.pc = "done"
        /\ req.resp.status = 400
        /\ ~req.resp.success
        /\ req.resp.code =
               IF req.route = "uploadSingle" THEN "NO_FILE" ELSE "NO_FILES"
        /\ req.calls = <<>>
        /\ req.items = <<>>

\* a batch upload without files has been answered NO_FILES
C7_Witness ==
    /\ req.route = "uploadMultiple"
    /\ req.handler = "uploadMultiple"
    /\ req.parts = <<>>
    /\ req.resp.code = "NO_FILES"
    /\ req.calls = <<>>

\* C8: a batch upload with more than 10 files is answered 400
\* TOO_MANY_FILES by the decode: uploadMultiple does not run, no file is
\* handed to uploadFile and no backend call is issued.  A batch of 1 to 10
\* valid files in field 'files' passes the decode and uploadMultiple issues a
\* put for each of them.
C8_FileCount ==
    req.route = "uploadMultiple" =>
        /\ Len(req.parts) > 10 =>
              /\ req.pc = "done"
              /\ req.resp.status = 400
              /\ req.resp.code = "TOO_MANY_FILES"
              /\ req.handler = "none"
              /\ req.items = <<>>
              /\ req.calls = <<>>
        /\ (Len(req.parts) \in 1..10 /\ req.fieldname = "files"
              /\ \A i \in 1..Len(req.parts) : ~BadPart(req.parts[i])) =>
              /\ req.resp.code \notin {"TOO_MANY_FILES", "UNEXPECTED_FIELD"}
              /\ req.handler = "uploadMultiple"
              /\ Len(req.items) = Len(req.parts)
              /\ \A j \in 1..Len(req.parts) : req.calls[j].op = "putObject"

\* eleven files have been answered TOO_MANY_FILES
C8_Witness ==
    /\ req.route = "uploadMultiple"
    /\ Len(req.parts) = 11
    /\ req.resp.status = 400
    /\ req.resp.code = "TOO_MANY_FILES"
    /\ req.calls = <<>>

-----------------------------------------------------------------------------
(* Properties of the bucket as the requests see it *)

\* the request has been answered and no fault of the backend was involved
Served(handler) ==
    req.handler = handler /\ req.pc = "done" /\ req.fault = <<>>

C5_KeyAsFilename ==
    [][(req.handler \in UploadRoutes /\ req.pc = "done"
          /\ req.resp.status = 201) =>
       \A j \in 1..Len(req.resp.data.keys) :
          LET k == req.resp.data.keys[j]
          IN  /\ (req'.method = "DELETE" /\ req'.url = UrlDelete(k)) =>
                    req'.handler = "deleteFile" /\ req'.filename = k
              /\ (req'.method = "GET" /\ req'.url = UrlInfo(k)) =>
                    req'.handler = "getFileInfo" /\ req'.filename = k
              /\ (req'.method = "GET" /\ req'.url = UrlUrl(k)) =>
                    req'.handler = "getFileUrl" /\ req'.filename = k]_vars

\* the removeObject call for key k returns
DeleteNames(k) ==
    /\ req.handler = "deleteFile"
    /\ req.pc = "call"
    /\ req.filename = k
    /\ req'.pc = "done"

\* a putObject call for key k returns
PutNames(k) ==
    \E j \in 1..Len(req.items) :
        /\ req.items[j].objectName = k
        /\ req.items[j].put = "pending"
        /\ req'.items[j].put = "ok"

\* the names the naming policy gives the files the clients send
PolicyNames ==
    {ObjectName(f.originalname, customPath, now, uuidv4) :
        f \in Files, customPath \in CustomPaths, now \in 1..MaxClock,
        uuidv4 \in Uuids}

\* every key handed to putObject is a name the naming policy generated
PutKeysGenerated ==
    \A j \in 1..Len(req.calls) :
        req.calls[j].op = "putObject" => req.calls[j].key \in PolicyNames

\* C6 as stated: an object of the bucket keeps its bytes, size and metadata
\* in every step, unless the step is the removeObject of a delete that
\* names its key.
C6_Immutable ==
    [][\A k \in DOMAIN store :
          \/ k \in DOMAIN store' /\ store'[k] = store[k]
          \/ DeleteNames(k)]_vars

\* C6, amended: an object of the bucket keeps its bytes, size and metadata
\* in every step, unless the step is the removeObject of a delete that
\* names its key or the putObject of an upload whose generated name is its
\* key; and every key handed to putObject is a generated name.
C6_ImmutableUntilNamed ==
    /\ [][\A k \in DOMAIN store :
             \/ k \in DOMAIN store' /\ store'[k] = store[k]
             \/ DeleteNames(k)
             \/ PutNames(k)]_vars
    /\ []PutKeysGenerated

\* two files of one batch, of the same original name, were given the same
\* name in the same millisecond, and the bucket holds one object for both
C6_Witness ==
    /\ req.handler = "uploadMultiple"
    /\ Len(req.items) = 2
    /\ req.items[1].objectName = req.items[2].objectName
    /\ req.items[1].buffer # req.items[2].buffer
    /\ req.items[1].put = "ok"
    /\ req.items[2].put = "ok"
    /\ DOMAIN store = {req.items[1].objectName}

-----------------------------------------------------------------------------
(* Properties of the pure functions *)

\* C9: the filter accepts a declared type iff it equals an entry of the
\* allow-list, or an entry ends in '/*' and the type begins with the entry
\* up to and including its '/'.
C9_FilterAcceptsIff ==
    probeIn.fn = "fileFilter" =>
        (probeOut.isAllowed <=>
            \E i \in 1..Len(probeIn.allowedTypes) :
                LET type == probeIn.allowedTypes[i]
                IN  \/ probeIn.mimetype = type
                    \/ /\ EndsWith(type, <<"/", "*">>)
                       /\ StartsWith(probeIn.mimetype, DropLast(type, 1)))

\* the name generated from originalName with extension ext
NamedWith(ext) ==
    LET name == probeIn.originalName
        base == SubSeq(name, 1, Len(name) - Len(ext))
        hex == SubSeq(probeIn.uuidv4, 1, 8)
        unique == base \o <<"_">> \o Digits(probeIn.now) \o <<"_">> \o hex \o ext
    IN  /\ \A i \in 1..8 : hex[i] \in HexChars
        /\ probeOut.uniqueFilename = unique
        /\ probeOut.objectName =
               IF probeIn.customPath # <<>>
               THEN probeIn.customPath \o <<"/">> \o unique
               ELSE unique

\* the part of name from its last '.', empty without a '.'
FromLastDot(name) ==
    IF \A i \in 1..Len(name) : name[i] # "." THEN <<>>
    ELSE CHOOSE e \in {SubSeq(name, i, Len(name)) : i \in 1..Len(name)} :
             e[1] = "." /\ \A j \in 2..Len(e) : e[j] # "."

\* C10 as stated: the generated name is base, '_', the timestamp, '_', eight
\* lowercase hexadecimal characters and the extension, the extension being
\* the part of the original name from its last '.'; the object name is the
\* path, '/', and that name iff the path is not empty.
C10_ExtensionFromLastDot ==
    probeIn.fn = "uploadFile" => NamedWith(FromLastDot(probeIn.originalName))

\* C10, amended: the same, the extension being the part of the original
\* name from its last '.', and empty when the name has no '.', when its only
\* '.' is its first character, or when the name is '..'.
C10_NamingPolicy ==
    probeIn.fn = "uploadFile" =>
        LET name == probeIn.originalName
        IN  NamedWith(IF \/ \A i \in 2..Len(name) : name[i] # "."
                         \/ name = <<".", ".">>
                      THEN <<>>
                      ELSE FromLastDot(name))

\* '..a' under path 'v' at millisecond 1: the base is '.', the extension '.a'
C10_Witness ==
    /\ probeIn.fn = "uploadFile"
    /\ probeIn.originalName = <<".", ".", "a">>
    /\ probeIn.customPath = <<"v">>
    /\ probeIn.now = 1
    /\ probeOut.objectName =
           <<"v", "/", ".", "_", "1", "_">> \o SubSeq(probeIn.uuidv4, 1, 8)
               \o <<".", "a">>

-----------------------------------------------------------------------------
(* Properties of the query parameters *)

\* s is the decimal spelling of a positive integer
PositiveDecimal(s) ==
    /\ s # <<>>
    /\ \A i \in 1..Len(s) : s[i] \in DigitSet
    /\ DecVal(s) > 0

\* s is the decimal spelling of a natural number
NaturalDecimal(s) ==
    /\ s # <<>>
    /\ \A i \in 1..Len(s) : s[i] \in DigitSet

\* C12: getFileUrl without an expiry query parameter issues the presign
\* with the default expiry 3600, and with an expiry that spells a positive
\* integer n issues it with exactly n; it issues that one presign for the
\* named key, and the 200 response reports expiresIn as issued, for the key.
C12_Expiry ==
    req.handler = "getFileUrl" =>
        /\ req.query.expiry = <<>> => req.args.expiry = 3600
        /\ PositiveDecimal(req.query.expiry) =>
              req.args.expiry = DecVal(req.query.expiry)
        /\ req.calls = <<[op |-> "presignedGetObject", key |-> req.filename]>>
        /\ Served("getFileUrl") =>
              /\ req.resp.success
              /\ req.resp.status = 200
              /\ Len(req.resp.data.grants) = 1
              /\ req.resp.data.grants[1].key = req.filename
              /\ req.resp.data.grants[1].expiresIn = req.args.expiry
              /\ req.query.expiry = <<>> =>
                    req.resp.data.grants[1].expiresIn = 3600
              /\ PositiveDecimal(req.query.expiry) =>
                    req.resp.data.grants[1].expiresIn = DecVal(req.query.expiry)

\* ?expiry=7200 has been answered 200 with expiresIn 7200
C12_Witness ==
    /\ Served("getFileUrl")
    /\ req.query.expiry = <<"7", "2", "0", "0">>
    /\ req.args.expiry = 7200
    /\ req.resp.status = 200
    /\ req.resp.data.grants[1].expiresIn = 7200

\* C13: a list request answered 200 returns entries whose keys all start
\* with the prefix, reports their number as count, and returns at most
\* limit entries when limit spells a natural number and at most 1000 when
\* it is absent; an absent prefix is ''.
C13_ListLimit ==
    Served("listFiles") =>
        LET listed == req.resp.data.listed
        IN  /\ req.resp.success
            /\ req.resp.data.count = Cardinality(listed)
            /\ req.args.prefix = req.query.prefix
            /\ \A e \in listed : StartsWith(e.name, req.query.prefix)
            /\ req.query.limit = <<>> =>
                  req.args.maxKeys = 1000 /\ Cardinality(listed) <= 1000
            /\ NaturalDecimal(req.query.limit) =>
                  Cardinality(listed) <= DecVal(req.query.limit)

-----------------------------------------------------------------------------
(* Properties of the responses *)

\* a backend call of the request is in flight
InFlight ==
    \/ req.pc = "call"
    \/ \E j \in 1..Len(req.items) :
          req.items[j].put = "pending" \/ req.items[j].sign = "pending"

\* C14: a request has at most one response written; it has exactly one, a
\* JSON body, as soon as its handler is done, and a handler that has not
\* answered yet is waiting for a backend call; a request rejected by cors,
\* by the limiter, by the decode or by a boundary check, one no route takes,
\* and one with a failed backend call (one or several of its files) has
\* been answered with exactly one error body.
C14_OneResponse ==
    /\ req.sent \in {0, 1}
    /\ req.sent = 1 <=> req.pc = "done"
    /\ req.sent = 0 => req.pc = "idle" \/ InFlight
    /\ req.pc = "done" =>
          /\ req.resp # NoResp
          /\ {"success"} \subseteq req.resp.fields
          /\ req.resp.status \in 200..599
    /\ (req.fault # <<>> \/ \E j \in 1..Len(req.items) : Failed(j)) =>
          req.sent = 1 /\ ~req.resp.success
    /\ (req.pc # "idle" /\ req.handler = "none") =>
          req.sent = 1 /\ ~req.resp.success /\ req.calls = <<>>

\* both puts of a batch of two have failed and one 503 has been written
C14_Witness ==
    /\ req.handler = "uploadMultiple"
    /\ Len(req.items) = 2
    /\ req.items[1].put = "failed"
    /\ req.items[2].put = "failed"
    /\ req.sent = 1
    /\ req.resp.status = 503

\* C15: every error body that is written carries success = false and the
\* properties error, code and timestamp; every success body carries
\* success = true and the properties message and data.
C15_BodyShape ==
    req.pc = "done" =>
        IF req.resp.success
        THEN {"success", "message", "data"} \subseteq req.resp.fields
        ELSE /\ {"success", "error", "code", "timestamp"} \subseteq req.resp.fields
             /\ req.resp.error # <<>>
             /\ req.resp.code # ""

\* the codes the error bodies are specified to carry
ErrorCodes ==
    {"NO_FILE", "NO_FILES", "MISSING_FILENAME", "INVALID_FILE_TYPE",
     "FILE_TOO_LARGE", "TOO_MANY_FILES", "UNEXPECTED_FIELD", "UPLOAD_ERROR",
     "VALIDATION_ERROR", "UNAUTHORIZED", "SERVICE_UNAVAILABLE",
     "BUCKET_NOT_FOUND", "ACCESS_DENIED", "SERVICE_UNHEALTHY", "NOT_FOUND",
     "INTERNAL_ERROR", "RATE_LIMIT_EXCEEDED"}

\* C16: whatever error object reaches errorHandler, the code of the body
\* it writes is one of the 17 enumerated codes.
C16_CodeEnumerated ==
    probeIn.fn = "errorHandler" => probeOut.resp.code \in ErrorCodes

\* C17: an error that a storage operation (put, presign, delete, list,
\* stat) raised because the backend could not be reached or refused the
\* connection is answered 503 with code SERVICE_UNAVAILABLE.
C17_ConnectivityIs503 ==
    (probeIn.fn = "errorHandler" /\ probeIn.fault \in ConnectivityFaults) =>
        /\ probeOut.resp.status = 503
        /\ probeOut.resp.code = "SERVICE_UNAVAILABLE"

\* C18: getFileInfo of a key the bucket does not hold, the backend being
\* reachable, is answered with an error body whose code is NOT_FOUND.
C18_AbsentIsNotFound ==
    (Served("getFileInfo") /\ req.filename \notin DOMAIN store) =>
        /\ ~req.resp.success
        /\ req.resp.code = "NOT_FOUND"

-----------------------------------------------------------------------------
(* Properties of the process *)

\* C19: healthCheck issues one bucketExists; when the call completes it
\* answers 200 with status 'healthy' and minio 'connected', and when the
\* call throws it answers 503 with code SERVICE_UNHEALTHY, status
\* 'unhealthy' and minio 'disconnected', a body of its own and not
\* errorHandler's; the process keeps listening.
C19_Health ==
    req.handler = "healthCheck" =>
        /\ req.calls = <<[op |-> "bucketExists", key |-> <<>>]>>
        /\ server.pc = "listening"
        /\ server.exitCode = -1
        /\ req.pc = "done" =>
              IF req.fault = <<>>
              THEN /\ req.resp.status = 200
                   /\ req.resp.success
                   /\ req.resp.data.status = "healthy"
                   /\ req.resp.data.minio = "connected"
              ELSE /\ req.resp.status = 503
                   /\ ~req.resp.success
                   /\ req.resp.code = "SERVICE_UNHEALTHY"
                   /\ req.resp.data.status = "unhealthy"
                   /\ req.resp.data.minio = "disconnected"
                   /\ req.resp.fields = {"success", "error", "code", "data"}
                   /\ req.resp # ErrorHandler(Err("Error", req.fault, ""))

\* the probe of a health check was refused and 503 has been written
C19_Witness ==
    /\ req.handler = "healthCheck"
    /\ req.pc = "done"
    /\ req.fault = MsgConnRefused
    /\ req.resp.status = 503
    /\ req.resp.code = "SERVICE_UNHEALTHY"
    /\ server.pc = "listening"

\* C20: the server listens only once initialize has completed without an
\* error and the bucket exists; when initialize has failed the process has
\* exited with code 1 and stays exited; a request is received only by a
\* listening server.
C20_ListenAfterInitialize ==
    /\ [](/\ server.pc = "listening" =>
              /\ server.fault = <<>>
              /\ bucket
              /\ server.calls \in {<<"bucketExists">>,
                                   <<"bucketExists", "makeBucket">>}
              /\ server.exitCode = -1
          /\ server.fault # <<>> =>
              server.pc = "exited" /\ server.exitCode = 1
          /\ server.pc = "exited" => server.fault # <<>>
          /\ server.pc # "listening" => req = Idle)
    /\ [][/\ server.pc = "exited" => server'.pc = "exited"
          /\ req' # req => server.pc = "listening"]_vars

\* makeBucket was refused: the process has exited with code 1 without the
\* bucket, and no request has been received
C20_Witness ==
    /\ server.pc = "exited"
    /\ server.exitCode = 1
    /\ server.calls = <<"bucketExists", "makeBucket">>
    /\ ~bucket
    /\ req = Idle

-----------------------------------------------------------------------------
(* Properties of the middleware *)

\* the configured allow-list: the one value, or the values of the list
AllowList(corsOrigin) ==
    IF corsOrigin.isArray THEN {corsOrigin.value[1], corsOrigin.value[2]}
    ELSE {corsOrigin.value[1]}

\* C21: a request without an Origin header is let through; one with an
\* Origin header is let through iff the origin is an element of the
\* allow-list or the allow-list contains '*'; any other request is answered
\* by errorHandler with the error 'Not allowed by CORS', and no route
\* handler runs and no backend call is issued for it.
C21_Cors ==
    probeIn.fn = "cors" =>
        LET r == probeOut.req
            through == \/ probeIn.origin = ""
                       \/ probeIn.origin \in AllowList(probeIn.corsOrigin)
                       \/ "*" \in AllowList(probeIn.corsOrigin)
        IN  IF through
            THEN r.handler = "healthCheck" /\ r.pc = "call" /\ r.sent = 0
            ELSE /\ r.handler = "none"
                 /\ r.calls = <<>>
                 /\ r.pc = "done"
                 /\ ~r.resp.success
                 /\ r.resp.error = <<"Not allowed by CORS">>
                 /\ r.resp.status = 500

\* origin http://c under the list http://a, http://b has been rejected
C21_Witness ==
    /\ probeIn.fn = "cors"
    /\ probeIn.corsOrigin.value = <<"http://a", "http://b">>
    /\ probeIn.origin = "http://c"
    /\ probeOut.req.handler = "none"
    /\ probeOut.req.resp.error = <<"Not allowed by CORS">>

-----------------------------------------------------------------------------
(* Properties of the batch upload *)

\* C23: a batch upload answered 201 reports count = n and n files for its
\* n input files (1 <= n <= 10); the i-th reported file is the result of
\* putting the i-th input file (its name, bytes and size, under the object
\* name that put used), the grant beside it is the one issued for that
\* object name, and the backend calls of the request are exactly one put
\* and one presign per input file.
C23_BatchResult ==
    (req.pc = "done" /\ req.handler = "uploadMultiple" /\ req.resp.status = 201) =>
        LET n == Len(req.parts)
            data == req.resp.data
        IN  /\ n \in 1..ArrayMaxCount
            /\ data.count = n
            /\ Len(data.keys) = n
            /\ Len(data.grants) = n
            /\ Len(req.items) = n
            /\ Len(req.calls) = 2 * n
            /\ \A i \in 1..n :
                  /\ req.items[i].metaData.originalName = req.parts[i].originalname
                  /\ req.items[i].buffer = req.parts[i].buffer
                  /\ req.items[i].size = Len(req.parts[i].buffer)
                  /\ data.keys[i] = req.items[i].objectName
                  /\ data.grants[i].key = data.keys[i]
                  /\ data.grants[i].expiresAt = req.items[i].expiresAt
                  /\ req.calls[i] = [op |-> "putObject", key |-> data.keys[i]]
                  /\ req.calls[n + i] =
                        [op |-> "presignedGetObject", key |-> data.keys[i]]

\* a batch of two files stored under two names has been answered 201
C23_Witness ==
    /\ req.pc = "done"
    /\ req.handler = "uploadMultiple"
    /\ req.resp.status = 201
    /\ Len(req.parts) = 2
    /\ req.resp.data.keys[1] # req.resp.data.keys[2]

\* C24: once a request has been answered (an upload of one or several
\* files, info, list, url or delete), none of the backend calls issued for
\* it is still in flight: every put and every presign of its files has
\* settled.
C24_AnsweredAfterCalls ==
    (req.pc = "done" /\ req.sent >= 1) =>
        \A j \in 1..Len(req.items) :
            req.items[j].put # "pending" /\ req.items[j].sign # "pending"

-----------------------------------------------------------------------------
(* Properties of the error handler *)

\* the first of the five cases the error falls under, 0 for none
ErrorClass(err) ==
    IF err.name = "ValidationError" THEN 1
    ELSE IF err.name = "UnauthorizedError" THEN 2
    ELSE IF Includes(err.message, "ECONNREFUSED") THEN 3
    ELSE IF Includes(err.message, "NoSuchBucket") THEN 4
    ELSE IF Includes(err.message, "AccessDenied") THEN 5
    ELSE 0

\* the status and code stated for each case
ClassStatus == <<400, 401, 503, 500, 403>>
ClassCode ==
    <<"VALIDATION_ERROR", "UNAUTHORIZED", "SERVICE_UNAVAILABLE",
      "BUCKET_NOT_FOUND", "ACCESS_DENIED">>

\* the response has the status and code of the first case the error falls
\* under, or the error's own (500 and INTERNAL_ERROR when it has none)
ClassifiedByPriority ==
    LET err == probeIn.err
        resp == probeOut.resp
        k == ErrorClass(err)
    IN  IF k # 0
        THEN resp.status = ClassStatus[k] /\ resp.code = ClassCode[k]
        ELSE /\ resp.status = (IF err.statusCode # 0 THEN err.statusCode ELSE 500)
             /\ resp.code = (IF err.code # "" THEN err.code ELSE "INTERNAL_ERROR")

\* C25 as stated: errorHandler classifies an error by the priority
\* ValidationError, UnauthorizedError, ECONNREFUSED, NoSuchBucket,
\* AccessDenied, else the error's own statusCode and code (500 and
\* INTERNAL_ERROR by default), and in that last case the body's error is
\* the error's message verbatim.
C25_Verbatim ==
    probeIn.fn = "errorHandler" =>
        /\ ClassifiedByPriority
        /\ ErrorClass(probeIn.err) = 0 =>
               probeOut.resp.error = probeIn.err.message

\* C25, amended: the same, the body's error in the last case being the
\* error's message when that is not empty and 'Internal Server Error' when
\* it is.
C25_Priority ==
    probeIn.fn = "errorHandler" =>
        /\ ClassifiedByPriority
        /\ ErrorClass(probeIn.err) = 0 =>
               probeOut.resp.error =
                   IF probeIn.err.message # <<>> THEN probeIn.err.message
                   ELSE <<"Internal Server Error">>

\* an error whose message names both NoSuchBucket and ECONNREFUSED has been
\* answered 503
C25_Witness ==
    /\ probeIn.fn = "errorHandler"
    /\ probeIn.err.name = "Error"
    /\ probeIn.err.message = MsgNoSuchBucket \o MsgConnRefused
    /\ probeOut.resp.status = 503
    /\ probeOut.resp.code = "SERVICE_UNAVAILABLE"

-----------------------------------------------------------------------------
(* Properties of initialize *)

\* C26: initialize calls makeBucket iff its bucketExists returned false:
\* run with the bucket present (a first run, or a run after an earlier one
\* created it) it issues bucketExists alone and leaves the bucket and the
\* objects as they are; run without the bucket it goes on to makeBucket;
\* when bucketExists or makeBucket throws, the error reaches startServer
\* (which exits with code 1) and nothing has been created.
C26_InitializeIdempotent ==
    /\ [](/\ server.pc = "makeBucket" =>
              ~bucket /\ server.calls = <<"bucketExists", "makeBucket">>
          /\ (server.pc = "listening" /\ server.calls = <<"bucketExists">>) =>
              bucket
          /\ server.pc = "exited" =>
              /\ server.fault # <<>>
              /\ server.calls = <<"bucketExists", "makeBucket">> => ~bucket)
    /\ [][server.pc = "bucketExists" /\ server'.pc # "bucketExists" =>
            /\ bucket' = bucket /\ store' = store
            /\ server'.pc = "exited" => server'.fault # <<>>
            /\ server'.pc # "exited" =>
                  IF bucket
                  THEN server'.pc = "listening" /\ server'.calls = server.calls
                  ELSE /\ server'.pc = "makeBucket"
                       /\ server'.calls = <<"bucketExists", "makeBucket">>]_vars
    /\ [][server.pc = "makeBucket" /\ server'.pc # "makeBucket" =>
            /\ store' = store
            /\ IF server'.pc = "exited"
               THEN server'.fault # <<>> /\ bucket' = bucket
               ELSE server'.pc = "listening" /\ bucket']_vars

\* started again with objects in the bucket, initialize has returned after
\* bucketExists alone
C26_Witness ==
    /\ server.pc = "listening"
    /\ server.calls = <<"bucketExists">>
    /\ store # <<>>
    /\ req = Idle

-----------------------------------------------------------------------------
(* Properties of the bucket *)

\* C27: a step that changes the bucket is either a put of the upload being
\* served settling successfully, which stores that file under its object
\* name and leaves every other object as it is, or the removeObject of the
\* delete being served settling successfully, which removes the named key
\* and nothing else; no step of a get info, list, get access URL or health
\* request, successful or failed, and no receipt of a request changes the
\* objects, their content or their metadata.
C27_ReadOnly ==
    [][store' # store =>
          \/ /\ req.handler \in {"uploadSingle", "uploadMultiple"}
             /\ \E j \in 1..Len(req.items) :
                   LET it == req.items[j]
                   IN  /\ it.put = "pending"
                       /\ req'.items[j].put = "ok"
                       /\ DOMAIN store' = DOMAIN store \cup {it.objectName}
                       /\ store'[it.objectName].data = it.buffer
                       /\ store'[it.objectName].metaData = it.metaData
                       /\ \A k \in DOMAIN store \ {it.objectName} :
                             store'[k] = store[k]
          \/ /\ req.handler = "deleteFile"
             /\ req.pc = "call"
             /\ req'.pc = "done"
             /\ req'.resp.success
             /\ req.filename \in DOMAIN store
             /\ DOMAIN store' = DOMAIN store \ {req.filename}
             /\ \A k \in DOMAIN store' : store'[k] = store[k]]_vars

\* an object is in the bucket and a get info request for it has been
\* answered 200
C27_Witness ==
    /\ req.handler = "getFileInfo"
    /\ req.pc = "done"
    /\ req.resp.status = 200
    /\ req.filename \in DOMAIN store

-----------------------------------------------------------------------------
(* Properties of the two phases of uploadMultiple *)

\* C28: once uploadMultiple has passed its checks, a put has been issued
\* for every file of the batch, one per file and in the order of the
\* files, whatever becomes of the other puts; a presign has been issued
\* only if every put of the batch has succeeded, and then one for every
\* file; when a put of the batch has failed or has not settled yet, no
\* presign has been issued for any file.
C28_TwoPhases ==
    (req.handler = "uploadMultiple" /\ req.items # <<>>) =>
        LET n == Len(req.items)
            puts == \A j \in 1..n :
                        req.calls[j] = [op |-> "putObject",
                                        key |-> req.items[j].objectName]
            allOk == \A j \in 1..n : req.items[j].put = "ok"
        IN  /\ Len(req.calls) >= n
            /\ puts
            /\ IF allOk
               THEN /\ Len(req.calls) = 2 * n
                    /\ \A j \in 1..n :
                          /\ req.calls[n + j] =
                                [op |-> "presignedGetObject",
                                 key |-> req.items[j].objectName]
                          /\ req.items[j].sign # "none"
               ELSE /\ Len(req.calls) = n
                    /\ \A j \in 1..n : req.items[j].sign = "none"

\* of a batch of two, the first put has failed and the second has
\* succeeded: both puts were issued and no presign
C28_Witness ==
    /\ req.handler = "uploadMultiple"
    /\ Len(req.items) = 2
    /\ req.items[1].put = "failed"
    /\ req.items[2].put = "ok"
    /\ Len(req.calls) = 2

-----------------------------------------------------------------------------
(* Properties of the health check *)

\* C29: when the probe of a health check completes and the check is
\* answered 200 'healthy', the configured bucket exists in the backend at
\* that moment.
C29_HealthyOnlyWithBucket ==
    [][(/\ req.handler = "healthCheck"
        /\ req.pc = "call"
        /\ req'.pc = "done"
        /\ req'.resp.status = 200
        /\ req'.resp.data.status = "healthy") => bucket]_vars

-----------------------------------------------------------------------------
(* Properties of the expiry passed to the presign *)

\* C30: the presign call of getFileUrl is issued with a positive expiry;
\* when the expiry query value is zero, negative or not a number, it is
\* issued with the configured default expiry.
C30_ExpiryPositive ==
    req.handler = "getFileUrl" =>
        /\ req.args.expiry > 0
        /\ (req.query.expiry # <<>> /\ ~PositiveDecimal(req.query.expiry)) =>
              req.args.expiry = DefaultExpiry

====
